---- MODULE Spec2Model ----
(***************************************************************************)
(* A model of the two-pass assembler for the DLS CPU                       *)
(* (src/Assembler/assembler.py).                                           *)
(*                                                                         *)
(* The program's state is the state of one call of assemble(): the source  *)
(* lines it read, the tables first_pass builds, the label tables of the    *)
(* Size/Symbol pass, the instruction lists of the second pass and the      *)
(* final image.  Each phase of assemble() is one action; the functions it  *)
(* calls are operators with the names they have in the source.             *)
(*                                                                         *)
(* Source text.  A source line is a record: what is left of it after       *)
(* re.sub(r'//.*', '', line).strip() (its kind k and its operands), and    *)
(* its decoration dec, the part that stripping removes:                    *)
(*     ""     nothing              "HALT"                                  *)
(*     "ws"   surrounding blanks   "  HALT  "                              *)
(*     "//"   an adjacent comment  "HALT//stop"                            *)
(*     " //"  a comment after a    "HALT // stop"                          *)
(*            blank                                                        *)
(* Kinds and the text they stand for:                                      *)
(*     blank  ""                   label  "n:"                             *)
(*     func   "[n]:"               fake   "[n]: fake" (br) or "n: fake"    *)
(*     halt   "HALT"               nop    "NOP"                            *)
(*     ret    "RETURN"             set    "SET a1 TO a2"                   *)
(*     jump   "JUMP n [IF c]", "JUMP [n] [IF c]" (br)                      *)
(*     if     "IF a1 c a2 THEN"    else   "ELSE"      end   "END"          *)
(*     alu    "a1 c a2 = n", or (br) "n = a1 c a2"                         *)
(***************************************************************************)
EXTENDS Integers, Sequences, FiniteSets, TLC

\* ---------------------------------------------------------------- tables

REGISTERS == [A |-> 0, B |-> 1, C |-> 2, D |-> 3, X |-> 4, Y |-> 5]

VT_REGISTER == 0
VT_BUILTIN == 1
VT_RAM == 2

OP_NOP == 0
OP_ALU == 1
OP_SET == 4
OP_JUMP == 5
OP_DRAW == 6
OP_STACK == 10
OP_HALT == 255

STACK_RETURN == 0
STACK_PUSH == 0
STACK_POP == 1

ALU_COMPARE == 11

ALU_OPS ==
  [ALU_ADD |-> 0, ALU_SUB |-> 1, ALU_MUL |-> 2, ALU_DIV |-> 3, NAND |-> 4,
   AND |-> 5, NOT |-> 6, OR |-> 7, NOR |-> 8, XOR |-> 9, XNOR |-> 10,
   COMPARE |-> ALU_COMPARE, COMPARE_SIGNED |-> 12]

\* (ALU_ADD, ALU_SUB, ALU_MUL and ALU_DIV are the keys '+', '-', '*' and '/'.)
\* The binary operators: what the pattern of an ALU line accepts
ALU_BINARY == DOMAIN ALU_OPS \ {"NOT"}

JT_NONE == 0
JT_ZERO == 1
JT_CARRY == 2
JT_KEY == 3

\* JUMP_TYPES.get(jump_type, 0) if jump_type else 0
JUMP_TYPES(c) ==
  CASE c = "ZERO" -> JT_ZERO
    [] c = "CARRY" -> JT_CARRY
    [] c = "KEY" -> JT_KEY
    [] OTHER -> JT_NONE

\* The image has 256 slots; fields and addresses are 8 bits wide.
IMAGE_SIZE == 256

Min(a, b) == IF a < b THEN a ELSE b

\* TRUE, and st is evaluated: a loop asks this of its state before its next
\* iteration, so that the state is computed iteration by iteration and not,
\* n levels deep, when the loop has ended.
Computed(st) == st = st

\* x & 0xFF, x & 0xF on the integers Python computes with
And255(x) == x % 256
And15(x) == x % 16

\* ----------------------------------------------------------- source text

Tok(ty, val) == [ty |-> ty, val |-> val]
RegTok(r) == Tok("REG", r)
NumTok(n) == Tok("NUM", n)
MemTok(n) == Tok("MEM", n)
NoTok == Tok("REG", 0)

\* no is the line's number in the source where the model keeps track of it
\* (0 otherwise); the program never reads it.
Line(k, n, br, c, a1, a2) ==
  [k |-> k, n |-> n, br |-> br, c |-> c, a1 |-> a1, a2 |-> a2, dec |-> "", no |-> 0]

LBlank == Line("blank", "", FALSE, "", NoTok, NoTok)
LLabel(n) == Line("label", n, FALSE, "", NoTok, NoTok)
LFunc(n) == Line("func", n, TRUE, "", NoTok, NoTok)
LFake(n, br) == Line("fake", n, br, "", NoTok, NoTok)
LHalt == Line("halt", "", FALSE, "", NoTok, NoTok)
LNop == Line("nop", "", FALSE, "", NoTok, NoTok)
LRet == Line("ret", "", FALSE, "", NoTok, NoTok)
LSet(r, imm) == Line("set", "", FALSE, "", RegTok(r), NumTok(imm))
LJump(n, br, c) == Line("jump", n, br, c, NoTok, NoTok)
LIf(a1, c, a2) == Line("if", "", FALSE, c, a1, a2)
LElse == Line("else", "", FALSE, "", NoTok, NoTok)
LEnd == Line("end", "", FALSE, "", NoTok, NoTok)
\* form2 = FALSE: "a1 op a2 = outreg"; form2 = TRUE: "outreg = a1 op a2"
LAlu(a1, op, a2, outreg, form2) == Line("alu", outreg, form2, op, a1, a2)
Dec(l, d) == [l EXCEPT !.dec = d]

\* re.sub(r'//.*', '', line).strip()
clean(l) == [l EXCEPT !.dec = ""]

Stamp(l, i) == [l EXCEPT !.no = i]

\* ':' in clean_line
HasColon(l) == l.k \in {"label", "func", "fake"}

\* any(pattern in func_name for pattern in ['FUNC','SUB','PROC','ROUTINE']),
\* on the names the model draws from
HasFunctionPattern(n) == n \in {"SUBR", "FUNC", "PROC", "ROUTINE"}

\* ------------------------------------------------------------ first_pass

\* The look-ahead of first_pass for a label without brackets: "ret" when
\* RETURN is met first, "jump" when an unconditional JUMP is, "none" when
\* another label or the end of the window is.
RECURSIVE heuristic_scan(_, _, _)
heuristic_scan(lines, j, last) ==
  IF j > last THEN "none"
  ELSE LET nl == lines[j] IN
    IF nl.k = "blank" THEN heuristic_scan(lines, j + 1, last)
    ELSE IF nl.k = "ret" THEN "ret"
    ELSE IF nl.k = "jump" /\ nl.c = "" THEN "jump"
    ELSE IF HasColon(nl) THEN "none"
    ELSE heuristic_scan(lines, j + 1, last)

\* One iteration of the first loop of first_pass, on line i (1-based).
\* acc.functions: the keys of `functions`; acc.fake_start: start_line of
\* each key of `fake_functions`; acc.fwr: functions_with_return.
first_pass_line(acc, lines, i) ==
  LET l == lines[i] IN
  IF ~HasColon(l) THEN acc
  ELSE IF l.k = "fake" THEN [acc EXCEPT !.fake_start = (l.n :> i) @@ @]
  ELSE IF l.k = "func" THEN [acc EXCEPT !.functions = @ \cup {l.n}]
  ELSE
    LET h == heuristic_scan(lines, i + 1, Min(i + 19, Len(lines)))
        is_function == h # "none" \/ HasFunctionPattern(l.n)
    IN IF is_function
       THEN [acc EXCEPT !.functions = @ \cup {l.n},
                        !.fwr = IF h = "ret" THEN @ \cup {l.n} ELSE @]
       ELSE acc

RECURSIVE first_pass_loop(_, _, _)
first_pass_loop(acc, lines, i) ==
  IF i > Len(lines) \/ ~Computed(acc) THEN acc
  ELSE first_pass_loop(first_pass_line(acc, lines, i), lines, i + 1)

\* The instructions of a fake function: the cleaned non-blank lines from
\* start_line + 1 up to the next line holding ':'.
RECURSIVE fake_body(_, _)
fake_body(lines, i) ==
  IF i > Len(lines) THEN <<>>
  ELSE IF lines[i].k = "blank" THEN fake_body(lines, i + 1)
  ELSE IF HasColon(lines[i]) THEN <<>>
  ELSE <<clean(lines[i])>> \o fake_body(lines, i + 1)

HasRet(body) == \E i \in 1..Len(body) : body[i].k = "ret"

\* first_pass(lines): functions (name -> address, -1 for None),
\* fake_functions (name -> instructions), functions_with_return.
first_pass(lines) ==
  LET acc == first_pass_loop([functions |-> {}, fake_start |-> <<>>, fwr |-> {}],
                             lines, 1)
      fk == [n \in DOMAIN acc.fake_start |-> fake_body(lines, acc.fake_start[n] + 1)]
  IN [functions |-> [n \in acc.functions |-> -1],
      fake_functions |-> fk,
      functions_with_return |->
        acc.fwr \cup {n \in DOMAIN fk : HasRet(fk[n])}]

\* ------------------------------------------- main/function line separation

\* function_lines[func_name] = []: a dict assignment, which keeps the place
\* of a key that is already there.  fl is the dict as a sequence of
\* [name, lines] in insertion order.
fl_reset(fl, name) ==
  IF \E i \in 1..Len(fl) : fl[i].name = name
  THEN [i \in 1..Len(fl) |->
          IF fl[i].name = name THEN [name |-> name, lines |-> <<>>] ELSE fl[i]]
  ELSE Append(fl, [name |-> name, lines |-> <<>>])

fl_append(fl, name, l) ==
  [i \in 1..Len(fl) |->
     IF fl[i].name = name THEN [fl[i] EXCEPT !.lines = Append(@, l)] ELSE fl[i]]

\* One iteration of the loop that separates the main program from the
\* functions.  st.cur is current_function ("" for None); each line kept in
\* st.fl carries its source line number.
separate_line(st, l, i, functions, fake_functions) ==
  IF l.k = "blank" THEN st
  ELSE IF l.k = "func" \/ (l.k = "fake" /\ l.br) THEN
    IF l.n \notin DOMAIN fake_functions
    THEN [st EXCEPT !.cur = l.n, !.fl = fl_reset(@, l.n)]
    ELSE [st EXCEPT !.cur = ""]
  ELSE IF l.k = "fake" THEN [st EXCEPT !.cur = ""]
  ELSE IF l.k = "label" /\ l.n \in DOMAIN functions
    THEN [st EXCEPT !.cur = l.n, !.fl = fl_reset(@, l.n)]
  ELSE
    LET cur == IF l.k = "label" THEN "" ELSE st.cur IN
    IF cur # ""
    THEN [st EXCEPT !.cur = cur, !.fl = fl_append(@, cur, [l EXCEPT !.no = i])]
    ELSE [st EXCEPT !.cur = cur, !.main_lines = Append(@, l)]

RECURSIVE separate_loop(_, _, _, _, _)
separate_loop(st, lines, i, functions, fake_functions) ==
  IF i > Len(lines) \/ ~Computed(st) THEN st
  ELSE separate_loop(separate_line(st, lines[i], i, functions, fake_functions),
                     lines, i + 1, functions, fake_functions)

\* ------------------------------------------- count_instruction_increment

\* count_instruction_increment(line, fake_functions, functions_with_return).
\* The recursion of the source has no end when a fake function is met again
\* on the path of calls that led to it; Python then raises RecursionError,
\* which is the result -1 here.  path is the set of fake functions entered.
RECURSIVE count_on_path(_, _, _, _)
RECURSIVE count_body(_, _, _, _, _)
count_on_path(line, fake_functions, fwr, path) ==
  IF line.k = "ret" THEN 2
  ELSE IF line.k \in {"if", "else", "end"} THEN 0
  ELSE IF line.k = "jump" THEN
    IF line.n \in DOMAIN fake_functions THEN
      IF line.n \in path THEN -1
      ELSE count_body(fake_functions[line.n], 1, fake_functions, fwr,
                      path \cup {line.n})
    ELSE IF line.n \in fwr THEN 2 ELSE 1
  ELSE 1

count_body(body, i, fake_functions, fwr, path) ==
  IF i > Len(body) THEN 0
  ELSE LET a == count_on_path(body[i], fake_functions, fwr, path)
           b == count_body(body, i + 1, fake_functions, fwr, path)
       IN IF a < 0 \/ b < 0 THEN -1 ELSE a + b

count_instruction_increment(line, fake_functions, fwr) ==
  count_on_path(line, fake_functions, fwr, {})

\* ------------------------------------------------------ Size/Symbol pass

\* One iteration of the loop "Create line labels for ALL source lines":
\* binds L<i> (line_labels is keyed by the line number), binds the label of
\* a label line to temp_address, and advances temp_address by the line's
\* increment.  err is set when count_instruction_increment raised.
size_pass_line(st, l, i, fake_functions, fwr) ==
  LET ll == IF l.k \in {"label", "func"} THEN st.line_labels
            ELSE (i :> st.temp_address) @@ st.line_labels
      s1 == [st EXCEPT !.line_labels = ll]
  IN IF l.k \in {"blank", "fake"} THEN s1
     ELSE IF l.k \in {"label", "func"}
       THEN [s1 EXCEPT !.labels = (l.n :> st.temp_address) @@ @]
     ELSE LET inc == count_instruction_increment(clean(l), fake_functions, fwr)
          IN IF inc < 0 THEN [s1 EXCEPT !.err = "RecursionError"]
             ELSE [s1 EXCEPT !.temp_address = @ + inc]

RECURSIVE size_pass_loop(_, _, _, _, _)
size_pass_loop(st, lines, i, fake_functions, fwr) ==
  IF i > Len(lines) \/ st.err # "" THEN st
  ELSE size_pass_loop(size_pass_line(st, lines[i], i, fake_functions, fwr),
                      lines, i + 1, fake_functions, fwr)

\* The counter starts at 2: two warm-up NOPs precede the program.
size_pass(lines, fake_functions, fwr) ==
  size_pass_loop([labels |-> <<>>, line_labels |-> <<>>, temp_address |-> 2,
                  err |-> ""], lines, 1, fake_functions, fwr)

\* ---------------------------------------------------------- instructions

\* An entry of main_instrs / function_instrs / resolved_instrs.  t tells
\* the shapes of the source's tuples apart:
\*   "I"        (data3, data2, data1, opcode), all numbers
\*   "SPECIAL"  (s, d2, 0, 'SPECIAL'): a pseudo-instruction named s
\*   "SYM"      (d3, d2, s, OPCODES['JUMP']): a jump whose data1 is still
\*              the function name s
\*   "CALL"     the 5-tuple ('FUNCTION_CALL', s, 0, c, d3) parse_instruction
\*              returns for a call
\* ln is the source line the entry was emitted for (0: none); the program
\* never reads it.
Ins(t, d3, d2, d1, op, s, c) ==
  [t |-> t, d3 |-> d3, d2 |-> d2, d1 |-> d1, op |-> op, s |-> s, c |-> c, ln |-> 0]

I(d3, d2, d1, op) == Ins("I", d3, d2, d1, op, "", "")
Special(s, d2) == Ins("SPECIAL", 0, d2, 0, 0, s, "")
Sym(key, jt, name) == Ins("SYM", key, jt, 0, OP_JUMP, name, "")
Call(name, c, key) == Ins("CALL", key, 0, 0, 0, name, c)
NOP == I(0, 0, 0, OP_NOP)
HALT == I(0, 0, 0, OP_HALT)

At(ins, i) == [ins EXCEPT !.ln = i]
AllAt(seq, i) == [k \in 1..Len(seq) |-> At(seq[k], i)]

\* instr[3] == OPCODES['HALT']
IsHALT(ins) == ins.t \in {"I", "SYM"} /\ ins.op = OP_HALT

RECURSIVE BitOr(_, _)
BitOr(a, b) ==
  IF a = 0 THEN b
  ELSE IF b = 0 THEN a
  ELSE (IF a % 2 = 1 \/ b % 2 = 1 THEN 1 ELSE 0) + 2 * BitOr(a \div 2, b \div 2)

\* ------------------------------------------------------------ parse_value

\* parse_value(value_str) on a token: (type, value)
parse_value(tok) ==
  CASE tok.ty = "REG" -> [ty |-> VT_REGISTER, val |-> tok.val]
    [] tok.ty = "MEM" -> [ty |-> VT_RAM, val |-> And255(tok.val)]
    [] OTHER -> [ty |-> VT_BUILTIN, val |-> And255(tok.val)]

\* ------------------------------------------- parse_value on a token's text

\* A text is the sequence of its characters.  The digits, by value:
DIGITS == <<"0", "1", "2", "3", "4", "5", "6", "7", "8", "9",
            "A", "B", "C", "D", "E", "F">>

\* str.upper() on the letters the texts of the model are written with
UPPER ==
  [a |-> "A", b |-> "B", c |-> "C", d |-> "D", e |-> "E", f |-> "F",
   x |-> "X", y |-> "Y"]

str_upper(str) ==
  [i \in 1..Len(str) |-> IF str[i] \in DOMAIN UPPER THEN UPPER[str[i]] ELSE str[i]]

\* str.strip(): without the spaces at its two ends
RECURSIVE str_strip(_)
str_strip(str) ==
  IF str = <<>> THEN str
  ELSE IF Head(str) = " " THEN str_strip(Tail(str))
  ELSE IF str[Len(str)] = " " THEN str_strip(SubSeq(str, 1, Len(str) - 1))
  ELSE str

startswith(str, prefix) ==
  Len(str) >= Len(prefix) /\ SubSeq(str, 1, Len(prefix)) = prefix

\* The value of the digit c, 16 when c is no digit
DigitValue(c) ==
  IF \E i \in 1..Len(DIGITS) : DIGITS[i] = c
  THEN (CHOOSE i \in 1..Len(DIGITS) : DIGITS[i] = c) - 1
  ELSE 16

\* The number the digits of str denote in the base, from the left, acc the
\* value of the digits read; -1 when a character is no digit of the base
RECURSIVE digits_value(_, _, _)
digits_value(str, base, acc) ==
  IF str = <<>> THEN acc
  ELSE IF DigitValue(Head(str)) >= base THEN -1
  ELSE digits_value(Tail(str), base, acc * base + DigitValue(Head(str)))

\* int(token, base) on an upper-case text: spaces around, a sign, the
\* prefix of the base, then at least one digit.  [ok, n]
int(token, base) ==
  LET t == str_strip(token)
      signed == t # <<>> /\ Head(t) \in {"-", "+"}
      sign == IF signed /\ Head(t) = "-" THEN -1 ELSE 1
      u == IF signed THEN Tail(t) ELSE t
      prefix == IF base = 16 THEN <<"0", "X">>
                ELSE IF base = 2 THEN <<"0", "B">> ELSE <<>>
      d == IF prefix # <<>> /\ startswith(u, prefix)
           THEN SubSeq(u, Len(prefix) + 1, Len(u)) ELSE u
      n == digits_value(d, base, 0)
  IN IF d = <<>> \/ n < 0 THEN [ok |-> FALSE, n |-> 0]
     ELSE [ok |-> TRUE, n |-> sign * n]

parse_number(token) ==
  LET t == str_upper(token) IN
  IF startswith(t, <<"0", "X">>) THEN int(t, 16)
  ELSE IF startswith(t, <<"0", "B">>) THEN int(t, 2)
  ELSE int(t, 10)

\* What parse_value returns when it raises ValueError
InvalidValue == [ty |-> -1, val |-> -1]

parse_value_str_without_upper(value_str) ==
  LET v == str_strip(value_str)
      name == IF Len(v) = 1 THEN v[1] ELSE ""
      inner == parse_number(SubSeq(v, 2, Len(v) - 1))
      whole == parse_number(v)
  IN IF name \in DOMAIN REGISTERS THEN [ty |-> VT_REGISTER, val |-> REGISTERS[name]]
     ELSE IF v # <<>> /\ Head(v) = "[" /\ v[Len(v)] = "]"
       THEN IF inner.ok THEN [ty |-> VT_RAM, val |-> And255(inner.n)]
            ELSE InvalidValue
     ELSE IF whole.ok THEN [ty |-> VT_BUILTIN, val |-> And255(whole.n)]
          ELSE InvalidValue

\* parse_value(value_str) on the text of a token
parse_value_str(value_str) ==
  LET v == str_upper(str_strip(value_str))
      name == IF Len(v) = 1 THEN v[1] ELSE ""
      inner == parse_number(SubSeq(v, 2, Len(v) - 1))
      whole == parse_number(v)
  IN IF name \in DOMAIN REGISTERS THEN [ty |-> VT_REGISTER, val |-> REGISTERS[name]]
     ELSE IF v # <<>> /\ Head(v) = "[" /\ v[Len(v)] = "]"
       THEN IF inner.ok THEN [ty |-> VT_RAM, val |-> And255(inner.n)]
            ELSE InvalidValue
     ELSE IF whole.ok THEN [ty |-> VT_BUILTIN, val |-> And255(whole.n)]
          ELSE InvalidValue

\* ------------------------------------------------------ parse_instruction

\* The names L1, L2, ... of the line aliases, by line number.
LNAMES == <<"L1", "L2", "L3", "L4", "L5", "L6", "L7", "L8", "L9">>

\* label.upper().startswith('L') and label.upper()[1:].isdigit()
IsLineName(n) == \E i \in 1..Len(LNAMES) : LNAMES[i] = n
LineNum(n) == CHOOSE i \in 1..Len(LNAMES) : LNAMES[i] = n

Parsed(ins) == [r |-> "ok", ins |-> ins, e |-> ""]
ParsedNone == [r |-> "none", ins |-> NOP, e |-> ""]
ParseError(e) == [r |-> "err", ins |-> NOP, e |-> e]

\* The JUMP branch of parse_instruction.  A name of the model is never a
\* number, so the last resort parse_number(label) raises ValueError.
parse_jump(l, labels, functions, line_labels, fake_functions) ==
  LET key == 0
      jt == JUMP_TYPES(l.c)
      call == Parsed(Call(l.n, l.c, key))
      jump(addr) == Parsed(I(key, jt, And255(addr + 1), OP_JUMP))
  IN
  IF DOMAIN line_labels # {} /\ ~l.br /\ IsLineName(l.n) THEN
    IF LineNum(l.n) \in DOMAIN line_labels
    THEN jump(line_labels[LineNum(l.n)])
    ELSE ParseError("ValueError")
  ELSE IF DOMAIN functions # {} /\ ~l.br /\ l.n \in DOMAIN functions THEN call
  ELSE IF DOMAIN functions # {} /\ l.br THEN
    IF l.n \in DOMAIN functions \/ l.n \in DOMAIN fake_functions
    THEN call
    ELSE ParseError("ValueError")
  ELSE IF DOMAIN fake_functions # {} /\ ~l.br /\ l.n \in DOMAIN fake_functions
    THEN call
  ELSE IF ~l.br /\ l.n \in DOMAIN labels THEN jump(labels[l.n])
  ELSE ParseError("ValueError")

\* The two branches "ALU binary op" of parse_instruction; they differ in the
\* pattern they match and compute the same tuple.
parse_alu(l) ==
  LET val1 == parse_value(l.a1)
      val2 == parse_value(l.a2)
      opnum == ALU_OPS[l.c]
      out == REGISTERS[l.n]
      reg1_nibble == IF val1.ty = VT_REGISTER THEN val1.val ELSE And15(val1.val)
      data3 == BitOr(reg1_nibble * 16, And15(opnum))
      data2 == BitOr(BitOr(val2.ty * 64, val1.ty * 16), out)
      data1 == BitOr(And15(val2.val) * 16, And15(val1.val))
  IN IF val1.ty = VT_RAM /\ val2.ty = VT_RAM
     THEN ParseError("ValueError")
     ELSE Parsed(I(data3, data2, data1, OP_ALU))

\* parse_instruction(line, labels, functions, line_labels, call_stack_ptr,
\* fake_functions).  The source strips the line BEFORE it removes the
\* comment, so a comment after a blank leaves a trailing blank in the text
\* the exact comparisons (line == 'HALT', line.endswith(':'), ...) see.
parse_instruction(l, labels, functions, line_labels, fake_functions) ==
  LET trailing == l.dec = " //"
      exact(ins) == IF trailing THEN ParseError("ValueError") ELSE Parsed(ins)
  IN
  CASE l.k = "blank" -> ParsedNone
    [] l.k \in {"label", "func"} ->
         IF trailing THEN ParseError("ValueError") ELSE ParsedNone
    [] l.k = "fake" -> ParseError("ValueError")
    [] l.k = "halt" -> exact(HALT)
    [] l.k = "ret" -> exact(Special("RETURN", 0))
    [] l.k = "nop" -> exact(NOP)
    [] l.k = "set" -> Parsed(I(0, l.a1.val, And255(l.a2.val), OP_SET))
    [] l.k = "jump" ->
         parse_jump(l, labels, functions, line_labels, fake_functions)
    [] l.k = "if" -> Parsed(Special("IF_STATEMENT", 0))
    [] l.k = "else" -> exact(Special("ELSE", 0))
    [] l.k = "end" -> exact(Special("END", 0))
    [] l.k = "alu" -> parse_alu(l)

\* The branch "DRAW X Y R G B" of parse_instruction, on the five parameters:
\* a register stands for its code, a number for its low four bits.
parse_draw_param(param) ==
  IF param.ty = "REG" THEN param.val ELSE And15(param.val)

parse_draw(params) ==
  LET x == And15(parse_draw_param(params[1]))
      y == And15(parse_draw_param(params[2]))
      r == And15(parse_draw_param(params[3]))
      g == And15(parse_draw_param(params[4]))
      b == And15(parse_draw_param(params[5]))
  IN IF Len(params) # 5 THEN ParseError("ValueError")
     ELSE Parsed(I(BitOr(0 * 16, b), BitOr(r * 16, g), BitOr(y * 16, x), OP_DRAW))

\* ---------------------------------------------------- the listing writer

\* The name the listing writer prints for a code of `table`, "?" standing
\* for the fallback names R<n> and OP<n>
NameOf(table, code) ==
  IF \E k \in DOMAIN table : table[k] = code
  THEN CHOOSE k \in DOMAIN table : table[k] = code
  ELSE "?"

\* format_operand(reg_val, reg_type): a register, a number or [number]
format_operand(reg_val, reg_type) ==
  CASE reg_type = VT_REGISTER -> RegTok(reg_val)
    [] reg_type = VT_BUILTIN -> NumTok(reg_val)
    [] reg_type = VT_RAM -> MemTok(reg_val)
    [] OTHER -> Tok("?", reg_val)

\* What the listing shows for an ALU instruction:
\* "{out_reg_name} = {reg1_str} {op_name} {reg2_str}"
listing_alu(ins) ==
  LET reg1_nibble == (ins.d3 \div 16) % 16
      op_code == ins.d3 % 16
      reg2_type == (ins.d2 \div 64) % 4
      reg1_type == (ins.d2 \div 16) % 4
      out_reg == ins.d2 % 16
      reg2 == (ins.d1 \div 16) % 16
      reg1 == ins.d1 % 16
  IN [outreg |-> NameOf(REGISTERS, out_reg),
      a1 |-> format_operand(reg1, reg1_type),
      op |-> NameOf(ALU_OPS, op_code),
      a2 |-> format_operand(reg2, reg2_type)]

\* What the listing shows for a DRAW instruction: "DRAW {x} {y} {r} {g} {b}"
listing_draw(ins) ==
  <<NumTok(ins.d1 % 16), NumTok((ins.d1 \div 16) % 16),
    NumTok((ins.d2 \div 16) % 16), NumTok(ins.d2 % 16), NumTok(ins.d3 % 16)>>

\* What the listing shows for a SET instruction: "SET {reg_name} to {value}"
listing_set(ins) == [reg |-> RegTok(ins.d2), value |-> NumTok(ins.d1)]

\* ------------------------------------------------ generate_if_instructions

\* The synthetic label names for unique_id = 0, 1, 2, 3
IF_THEN_NAMES == <<"_IF_THEN_0", "_IF_THEN_1", "_IF_THEN_2", "_IF_THEN_3">>
IF_ELSE_NAMES == <<"_IF_ELSE_0", "_IF_ELSE_1", "_IF_ELSE_2", "_IF_ELSE_3">>
IF_END_NAMES == <<"_IF_END_0", "_IF_END_1", "_IF_END_2", "_IF_END_3">>

\* The number of conditional jumps that precede the then-block,
\* per comparison operator: the leading "instruction_count += 1" lines.
if_prefix_jumps(op) ==
  CASE op \in {"!=", ">="} -> 1
    [] op \in {"==", "<", ">"} -> 2
    [] OTHER -> 3

\* Two variants of if_prefix with a fault seeded, against which the
\* properties of the IF expansion are tested: "==" without its jump to the
\* else-block, and ">" without its jump on the zero flag.
if_prefix_eq_without_else_jump(op, then_addr, else_addr) ==
  LET J(jt, a) == I(0, jt, And255(a + 1), OP_JUMP) IN
  CASE op = "==" -> <<J(JT_ZERO, then_addr)>>
    [] op = "!=" -> <<J(JT_ZERO, else_addr)>>
    [] op = "<" -> <<J(JT_CARRY, then_addr), J(JT_NONE, else_addr)>>
    [] op = ">=" -> <<J(JT_CARRY, else_addr)>>
    [] op = ">" -> <<J(JT_ZERO, else_addr), J(JT_CARRY, else_addr)>>
    [] OTHER -> <<J(JT_ZERO, then_addr), J(JT_CARRY, then_addr),
                  J(JT_NONE, else_addr)>>

if_prefix_gt_without_zero_jump(op, then_addr, else_addr) ==
  LET J(jt, a) == I(0, jt, And255(a + 1), OP_JUMP) IN
  CASE op = "==" -> <<J(JT_ZERO, then_addr), J(JT_NONE, else_addr)>>
    [] op = "!=" -> <<J(JT_ZERO, else_addr)>>
    [] op = "<" -> <<J(JT_CARRY, then_addr), J(JT_NONE, else_addr)>>
    [] op = ">=" -> <<J(JT_CARRY, else_addr)>>
    [] op = ">" -> <<J(JT_CARRY, else_addr), J(JT_CARRY, else_addr)>>
    [] OTHER -> <<J(JT_ZERO, then_addr), J(JT_CARRY, then_addr),
                  J(JT_NONE, else_addr)>>

\* The jumps appended before the then-block.
if_prefix(op, then_addr, else_addr) ==
  LET J(jt, a) == I(0, jt, And255(a + 1), OP_JUMP) IN
  CASE op = "==" -> <<J(JT_ZERO, then_addr), J(JT_NONE, else_addr)>>
    [] op = "!=" -> <<J(JT_ZERO, else_addr)>>
    [] op = "<" -> <<J(JT_CARRY, then_addr), J(JT_NONE, else_addr)>>
    [] op = ">=" -> <<J(JT_CARRY, else_addr)>>
    [] op = ">" -> <<J(JT_ZERO, else_addr), J(JT_CARRY, else_addr)>>
    [] OTHER -> <<J(JT_ZERO, then_addr), J(JT_CARRY, then_addr),
                  J(JT_NONE, else_addr)>>

\* The COMPARE instruction of an IF: left COMPARE right = X
if_compare(left, right) ==
  LET reg1_nibble == IF left.ty = VT_REGISTER THEN left.val ELSE And15(left.val)
      data3 == BitOr(reg1_nibble * 16, And15(ALU_COMPARE))
      data2 == BitOr(BitOr(right.ty * 64, left.ty * 16), REGISTERS.X)
      data1 == BitOr(right.val * 16, left.val)
  IN I(data3, data2, data1, OP_ALU)

\* generate_if_instructions(if_line, then_instructions, else_instructions,
\* labels, instruction_address), with the clock's reading unique_id.
\* Returns the instructions and the label table with the three synthetic
\* labels bound; the entries it generates itself are emitted for the IF
\* line (ln = if_line.no).
generate_if_instructions(if_line, then_instructions, else_instructions, labels, instruction_address, unique_id) ==
  LET left == parse_value(if_line.a1)
      right == parse_value(if_line.a2)
      op == if_line.c
      then_addr == instruction_address + 1 + if_prefix_jumps(op)
      over == IF else_instructions # <<>> THEN 1 ELSE 0
      else_addr == then_addr + Len(then_instructions) + over
      end_addr == else_addr + Len(else_instructions)
      labels2 == (IF_END_NAMES[unique_id + 1] :> end_addr) @@
                 (IF_ELSE_NAMES[unique_id + 1] :> else_addr) @@
                 (IF_THEN_NAMES[unique_id + 1] :> then_addr) @@ labels
      head == <<if_compare(left, right)>> \o if_prefix(op, then_addr, else_addr)
      skip == IF else_instructions # <<>>
              THEN <<I(0, JT_NONE, And255(end_addr + 1), OP_JUMP)>> ELSE <<>>
  IN IF left.ty = VT_RAM /\ right.ty = VT_RAM
     THEN [r |-> "err", instrs |-> <<>>, labels |-> labels, e |-> "ValueError"]
     ELSE [r |-> "ok",
           instrs |-> AllAt(head, if_line.no) \o then_instructions
                      \o AllAt(skip, if_line.no) \o else_instructions,
           labels |-> labels2, e |-> ""]

\* --------------------------------------------- call and return lowering

Ok(instrs) == [r |-> "ok", instrs |-> instrs, e |-> ""]
Failed(e) == [r |-> "err", instrs |-> <<>>, e |-> e]

\* generate_function_call_instructions(target_addr, jump_type, key,
\* functions_with_return).  Its only caller, expand_fake_function, passes
\* the function's NAME as target_addr, so (target_addr + 1) & 0xFF raises
\* TypeError after the STORE_RETURN_ADDR entry was appended.
generate_function_call_instructions(target_addr, jump_type, key, fwr) ==
  Failed("TypeError")

\* generate_return_instructions()
generate_return_instructions == <<Special("LOAD_RETURN_ADDR", 0)>>

\* The body of the loop of expand_fake_function for one instruction.
expand_instruction(instruction, labels, functions, line_labels, fake_functions, fwr) ==
  LET result == parse_instruction(instruction, labels, functions, line_labels,
                                  fake_functions)
      ins == result.ins
  IN
  IF result.r = "err" THEN Failed(result.e)
  ELSE IF result.r = "none" THEN Ok(<<>>)
  ELSE IF ins.t = "CALL" THEN
    IF ins.s \in DOMAIN fake_functions THEN
      Ok(<<I(ins.d3, JUMP_TYPES(ins.c),
             IF ins.s \in DOMAIN labels THEN And255(labels[ins.s] + 1) ELSE 1,
             OP_JUMP)>>)
    ELSE generate_function_call_instructions(ins.s, ins.c, ins.d3, fwr)
  ELSE IF ins.t = "SPECIAL" /\ ins.s = "RETURN" THEN Ok(generate_return_instructions)
  ELSE Ok(<<ins>>)

\* expand_fake_function(fake_func_instructions, labels, functions,
\* line_labels, call_stack_ptr, fake_functions, functions_with_return)
RECURSIVE expand_from(_, _, _, _, _, _, _)
expand_from(body, k, labels, functions, line_labels, fake_functions, fwr) ==
  IF k > Len(body) THEN Ok(<<>>)
  ELSE LET a == expand_instruction(body[k], labels, functions, line_labels,
                                   fake_functions, fwr)
       IN IF a.r = "err" THEN a
          ELSE LET b == expand_from(body, k + 1, labels, functions, line_labels,
                                    fake_functions, fwr)
               IN IF b.r = "err" THEN b ELSE Ok(a.instrs \o b.instrs)

expand_fake_function(body, labels, functions, line_labels, fake_functions, fwr) ==
  expand_from(body, 1, labels, functions, line_labels, fake_functions, fwr)

\* ------------------------------------------- second pass: the main program

\* The scan for the ELSE and END that match the IF on the line before j.
\* end is the line of the matching END (0: there is none); th and el are
\* then_instructions and else_instructions, each line with its number.
RECURSIVE if_scan(_, _, _, _, _, _)
if_scan(lines, j, in_else, nesting_level, th, el) ==
  IF j > Len(lines) THEN [end |-> 0, th |-> th, el |-> el]
  ELSE LET bl == Stamp(clean(lines[j]), j) IN
    IF bl.k = "blank" THEN if_scan(lines, j + 1, in_else, nesting_level, th, el)
    ELSE IF bl.k = "end" /\ nesting_level = 0 THEN [end |-> j, th |-> th, el |-> el]
    ELSE IF bl.k = "else" /\ nesting_level = 0
      THEN if_scan(lines, j + 1, TRUE, nesting_level, th, el)
    ELSE LET n2 == CASE bl.k = "if" -> nesting_level + 1
                     [] bl.k = "end" -> nesting_level - 1
                     [] OTHER -> nesting_level
         IN if_scan(lines, j + 1, in_else, n2,
                    IF in_else THEN th ELSE Append(th, bl),
                    IF in_else THEN Append(el, bl) ELSE el)

\* "Parse the then and else instructions": parse_instruction on each line
\* of a block, the results kept as they are.
RECURSIVE parse_block(_, _, _, _, _, _)
parse_block(block, k, labels, functions, line_labels, fake_functions) ==
  IF k > Len(block) THEN Ok(<<>>)
  ELSE LET result == parse_instruction(block[k], labels, functions, line_labels,
                                       fake_functions)
       IN IF result.r = "err" THEN Failed(result.e)
          ELSE LET rest == parse_block(block, k + 1, labels, functions,
                                       line_labels, fake_functions)
               IN IF rest.r = "err" THEN rest
                  ELSE IF result.r = "none" THEN rest
                  ELSE Ok(<<At(result.ins, block[k].no)>> \o rest.instrs)

\* The lowering of an IF block that starts on line st.i.
second_pass_if(st, lines, functions, line_labels, fake_functions, clk) ==
  LET sc == if_scan(lines, st.i + 1, FALSE, 0, <<>>, <<>>)
      pt == parse_block(sc.th, 1, st.labels, functions, line_labels, fake_functions)
      pe == parse_block(sc.el, 1, st.labels, functions, line_labels, fake_functions)
      g == generate_if_instructions(Stamp(clean(lines[st.i]), st.i), pt.instrs,
                                    pe.instrs, st.labels, st.instruction_address,
                                    clk[st.nif + 1])
  IN IF sc.end = 0 THEN [st EXCEPT !.err = "ValueError"]
     ELSE IF pt.r = "err" THEN [st EXCEPT !.err = pt.e]
     ELSE IF pe.r = "err" THEN [st EXCEPT !.err = pe.e]
     ELSE IF g.r = "err" THEN [st EXCEPT !.err = g.e]
     ELSE [st EXCEPT !.main_instrs = @ \o g.instrs,
                     !.instruction_address = @ + Len(g.instrs),
                     !.labels = g.labels,
                     !.nif = @ + 1,
                     !.i = sc.end + 1]

\* The lowering of any other instruction line, line st.i.
second_pass_instruction(st, lines, functions, line_labels, fake_functions, fwr) ==
  LET i == st.i
      result == parse_instruction(lines[i], st.labels, functions, line_labels,
                                  fake_functions)
      ins == result.ins
      next == [st EXCEPT !.i = i + 1]
  IN
  IF result.r = "err" THEN [st EXCEPT !.err = result.e]
  ELSE IF result.r = "none" THEN next
  ELSE IF ins.t = "CALL" THEN
    IF ins.s \in DOMAIN fake_functions THEN
      LET labels2 == (ins.s :> st.instruction_address) @@ st.labels
          expanded == expand_fake_function(fake_functions[ins.s], labels2,
                        functions, line_labels, fake_functions, fwr)
      IN IF expanded.r = "err" THEN [st EXCEPT !.err = expanded.e]
         ELSE [next EXCEPT !.labels = labels2,
                           !.main_instrs = @ \o AllAt(expanded.instrs, i),
                           !.instruction_address = @ + Len(expanded.instrs)]
    ELSE
      LET store == IF ins.s \in fwr
                   THEN <<Special("STORE_RETURN_ADDR", st.instruction_address)>>
                   ELSE <<>>
          jump == <<Sym(ins.d3, JUMP_TYPES(ins.c), ins.s)>>
      IN [next EXCEPT !.main_instrs = @ \o AllAt(store \o jump, i),
                      !.instruction_address = @ + 2 * Len(store) + 1]
  ELSE IF ins.t = "SPECIAL" /\ ins.s \in {"IF_STATEMENT", "ELSE", "END"} THEN next
  ELSE [next EXCEPT !.main_instrs = Append(@, At(ins, i)),
                    !.instruction_address =
                      @ + (IF ins.t = "SPECIAL" /\ ins.s = "RETURN" THEN 2 ELSE 1)]

\* One iteration of "Second pass: Generate instructions for main program".
second_pass_line(st, lines, functions, line_labels, fake_functions, fwr, clk) ==
  LET l == clean(lines[st.i]) IN
  IF l.k = "blank" THEN [st EXCEPT !.i = @ + 1]
  ELSE IF l.k = "fake" THEN [st EXCEPT !.i = @ + 1]
  ELSE IF HasColon(l) THEN
    IF l.n \in DOMAIN functions THEN [st EXCEPT !.stop = TRUE]
    ELSE [st EXCEPT !.i = @ + 1]
  ELSE IF l.k = "if"
    THEN second_pass_if(st, lines, functions, line_labels, fake_functions, clk)
  ELSE second_pass_instruction(st, lines, functions, line_labels, fake_functions, fwr)

RECURSIVE second_pass_loop(_, _, _, _, _, _, _)
second_pass_loop(st, lines, functions, line_labels, fake_functions, fwr, clk) ==
  IF st.i > Len(lines) \/ st.stop \/ st.err # "" THEN st
  ELSE second_pass_loop(
         second_pass_line(st, lines, functions, line_labels, fake_functions, fwr, clk),
         lines, functions, line_labels, fake_functions, fwr, clk)

\* main_instrs starts with the two warm-up NOPs, instruction_address at 2.
\* clk[k] is the clock's reading (unique_id) at the k-th IF expansion.
second_pass(lines, labels, functions, line_labels, fake_functions, fwr, clk) ==
  second_pass_loop([i |-> 1, main_instrs |-> <<NOP, NOP>>, instruction_address |-> 2,
                    labels |-> labels, nif |-> 0, stop |-> FALSE, err |-> ""],
                   lines, functions, line_labels, fake_functions, fwr, clk)

\* ------------------------------------------------------- Layout & Linker

\* A variant of ensure_halt with a fault seeded: HALT is appended whatever
\* the last instruction is.
ensure_halt_always(main_instrs) == Append(main_instrs, HALT)

\* "Ensure program ends with HALT"
ensure_halt(main_instrs) ==
  IF main_instrs = <<>> \/ ~IsHALT(main_instrs[Len(main_instrs)])
  THEN Append(main_instrs, HALT)
  ELSE main_instrs

\* for func_name in functions: if func_name in labels:
\*     functions[func_name] = labels[func_name]
bind_functions(functions, labels) ==
  [n \in DOMAIN functions |->
     IF n \in DOMAIN labels THEN labels[n] ELSE functions[n]]

\* "Now resolve function call addresses": a jump that still holds a
\* function name gets (functions[func_name] + 1) & 0xFF.
resolve_calls(instrs, functions) ==
  [k \in 1..Len(instrs) |->
     LET ins == instrs[k] IN
     IF ins.t = "SYM" /\ ins.s \in DOMAIN functions /\ functions[ins.s] # -1
     THEN [ins EXCEPT !.t = "I", !.d1 = And255(functions[ins.s] + 1), !.s = ""]
     ELSE ins]

\* The body of "for line in func_lines" for one line of a function.
\* fia is function_instruction_address.
function_line(st, line, labels, functions, line_labels, fake_functions, fwr) ==
  LET result == parse_instruction(line, labels, functions, line_labels,
                                  fake_functions)
      ins == result.ins
      i == line.no
  IN
  IF result.r = "err" THEN [st EXCEPT !.err = result.e]
  ELSE IF result.r = "none" THEN st
  ELSE IF ins.t = "SPECIAL" /\ ins.s = "RETURN" THEN
    [st EXCEPT !.instrs = Append(@, At(Special("RETURN", 0), i)), !.fia = @ + 2]
  ELSE IF ins.t = "CALL" THEN
    IF ins.s \in DOMAIN fake_functions THEN
      LET expanded == expand_fake_function(fake_functions[ins.s], labels,
                        functions, line_labels, fake_functions, fwr)
      IN IF expanded.r = "err" THEN [st EXCEPT !.err = expanded.e]
         ELSE [st EXCEPT !.instrs = @ \o AllAt(expanded.instrs, i),
                         !.fia = @ + Len(expanded.instrs)]
    ELSE
      LET store == IF ins.s \in fwr
                   THEN <<Special("STORE_RETURN_ADDR", st.fia)>> ELSE <<>>
          jt == JUMP_TYPES(ins.c)
          jump == IF ins.s \in DOMAIN functions /\ functions[ins.s] # -1
                  THEN I(ins.d3, jt, And255(functions[ins.s] + 1), OP_JUMP)
                  ELSE Sym(ins.d3, jt, ins.s)
      IN [st EXCEPT !.instrs = @ \o AllAt(store \o <<jump>>, i),
                    !.fia = @ + 2 * Len(store) + 1]
  ELSE [st EXCEPT !.instrs = Append(@, At(ins, i)), !.fia = @ + 1]

RECURSIVE function_body(_, _, _, _, _, _, _, _)
function_body(st, func_lines, k, labels, functions, line_labels, fake_functions, fwr) ==
  IF k > Len(func_lines) \/ st.err # "" THEN st
  ELSE function_body(
         function_line(st, func_lines[k], labels, functions, line_labels,
                       fake_functions, fwr),
         func_lines, k + 1, labels, functions, line_labels, fake_functions, fwr)

\* "Add functions after main program": the bodies in function_lines' order.
RECURSIVE emit_functions(_, _, _, _, _, _, _, _)
emit_functions(st, function_lines, f, labels, functions, line_labels, fake_functions, fwr) ==
  IF f > Len(function_lines) \/ st.err # "" THEN st
  ELSE emit_functions(
         IF function_lines[f].name \notin DOMAIN fake_functions
         THEN function_body(st, function_lines[f].lines, 1, labels, functions,
                            line_labels, fake_functions, fwr)
         ELSE st,
         function_lines, f + 1, labels, functions, line_labels, fake_functions, fwr)

\* What one entry of all_instrs becomes in resolved_instrs, n entries of
\* which exist already.
resolve_special(ins, n) ==
  IF ins.t # "SPECIAL" THEN <<ins>>
  ELSE IF ins.s = "STORE_RETURN_ADDR" THEN
    AllAt(<<I(0, REGISTERS.D, And255(n + 2), OP_SET),
            I(BitOr(STACK_PUSH * 4, STACK_RETURN), REGISTERS.D, 0, OP_STACK)>>,
          ins.ln)
  ELSE IF ins.s = "RETURN" THEN
    AllAt(<<I(BitOr(STACK_POP * 4, STACK_RETURN), REGISTERS.D, 0, OP_STACK),
            I(16, REGISTERS.D * 16, 0, OP_JUMP)>>,
          ins.ln)
  ELSE <<>>

\* "Resolve STORE_RETURN_ADDR and RETURN instructions": what the entries
\* lo..hi of all_instrs become, n entries of resolved_instrs existing before
\* them.  The source's loop goes through all_instrs from first to last; the
\* two halves are the first and the second part of that loop.
RECURSIVE resolve_specials(_, _, _, _)
resolve_specials(all_instrs, lo, hi, n) ==
  IF lo > hi THEN <<>>
  ELSE IF lo = hi THEN resolve_special(all_instrs[lo], n)
  ELSE LET mid == (lo + hi) \div 2
           first == resolve_specials(all_instrs, lo, mid, n)
       IN first \o resolve_specials(all_instrs, mid + 1, hi, n + Len(first))

\* "Pad to 256 instructions": while len(resolved_instrs) < 256: append NOP
pad(resolved_instrs) ==
  IF Len(resolved_instrs) >= IMAGE_SIZE THEN resolved_instrs
  ELSE resolved_instrs \o [k \in 1..(IMAGE_SIZE - Len(resolved_instrs)) |-> NOP]

\* "Format for ROM1 and ROM2": the error the validation loop raises on an
\* entry ("" when it raises none).  A 5-tuple is malformed; a data1 that is
\* still a name cannot be compared with a number.
format_error_without_data1(ins) ==
  CASE ins.t = "CALL" -> "ValueError"
    [] ins.t = "SYM" ->
         IF ins.d3 \in 0..255 /\ ins.d2 \in 0..255 THEN "TypeError" ELSE "ValueError"
    [] OTHER ->
         IF ins.d3 \in 0..255 /\ ins.d2 \in 0..255 /\ ins.op \in 0..255
         THEN "" ELSE "ValueError"

format_error(ins) ==
  CASE ins.t = "CALL" -> "ValueError"
    [] ins.t = "SYM" ->
         IF ins.d3 \in 0..255 /\ ins.d2 \in 0..255 THEN "TypeError" ELSE "ValueError"
    [] OTHER ->
         IF ins.d3 \in 0..255 /\ ins.d2 \in 0..255 /\ ins.d1 \in 0..255
            /\ ins.op \in 0..255
         THEN "" ELSE "ValueError"

\* The 16-bit words f"{data1:08b}{opcode:08b}" and f"{data3:08b}{data2:08b}"
rom1_word(ins) == ins.d1 * 256 + ins.op
rom2_word(ins) == ins.d3 * 256 + ins.d2

\* ------------------------------------------------------------ assemble()

VARIABLES
  lines,                  \* the source lines read from the file
  pc,                     \* the phase assemble() is about to run
  functions,              \* name -> address (-1: None)
  fake_functions,         \* name -> the fake function's instructions
  functions_with_return,  \* set of names
  function_lines,         \* the dict name -> lines, in insertion order
  labels,                 \* name -> address
  line_labels,            \* line number n -> address of L<n>
  main_instrs,
  instruction_address,
  function_instrs,
  resolved_instrs,
  rom1, rom2,             \* the output, as sequences of 16-bit words
  err,                    \* the exception that ended the run ("" for none)
  clock,                  \* the readings int(time.time() * 1000000) % 1000000
                          \* the clock gives this run, one per IF expansion
  \* a machine that runs the sequence generate_if_instructions returns
  if_in,                  \* the arguments of the call, and the operands' values
  if_code,                \* the sequence returned, placed at instruction_address
  mpc,                    \* the machine's program counter (-1: not started)
  zero, carry,            \* its flags
  ran,                    \* the body instructions it executed, in order
  steps,                  \* the number of instructions it executed
  \* one call of a function of the assembler on its own
  fn_in,                  \* the function called (f) and its arguments
  fn_out                  \* what it returned, and what was made of that, in order

machine_vars == <<if_in, if_code, mpc, zero, carry, ran, steps>>

fn_vars == <<fn_in, fn_out>>

vars == <<lines, pc, functions, fake_functions, functions_with_return,
          function_lines, labels, line_labels, main_instrs,
          instruction_address, function_instrs, resolved_instrs, rom1, rom2,
          err, clock, machine_vars, fn_vars>>

\* The readings of the clock: unique_id is 0 .. NumIds - 1
NumIds == 2

\* The clocks of a run on `src`: one reading per IF line at most
IfLines(src) == {i \in 1..Len(src) : src[i].k = "if"}
Clocks(src) == [1..Cardinality(IfLines(src)) -> 0..(NumIds - 1)]

\* The variables of assemble() before its first statement, on the text src
Fresh(src, at) ==
  /\ lines = src
  /\ pc = at
  /\ functions = <<>>
  /\ fake_functions = <<>>
  /\ functions_with_return = {}
  /\ function_lines = <<>>
  /\ labels = <<>>
  /\ line_labels = <<>>
  /\ main_instrs = <<>>
  /\ instruction_address = 0
  /\ function_instrs = <<>>
  /\ resolved_instrs = <<>>
  /\ rom1 = <<>>
  /\ rom2 = <<>>
  /\ err = ""
  /\ clock = <<>>

\* The state after "lines = f.readlines()"
Start(src) == Fresh(src, "first_pass")

\* functions, fake_functions, functions_with_return = first_pass(lines)
FirstPass ==
  /\ pc = "first_pass"
  /\ \E fp \in {first_pass(lines)} :
       /\ functions' = fp.functions
       /\ fake_functions' = fp.fake_functions
       /\ functions_with_return' = fp.functions_with_return
  /\ pc' = "separate"
  /\ UNCHANGED <<machine_vars, fn_vars>>
  /\ UNCHANGED <<clock, lines, function_lines, labels, line_labels, main_instrs,
                 instruction_address, function_instrs, resolved_instrs, rom1,
                 rom2, err>>

\* "Separate main program from functions"
Separate ==
  /\ pc = "separate"
  /\ function_lines' =
       separate_loop([cur |-> "", fl |-> <<>>, main_lines |-> <<>>], lines, 1,
                     functions, fake_functions).fl
  /\ pc' = "size_pass"
  /\ UNCHANGED <<machine_vars, fn_vars>>
  /\ UNCHANGED <<clock, lines, functions, fake_functions, functions_with_return, labels,
                 line_labels, main_instrs, instruction_address, function_instrs,
                 resolved_instrs, rom1, rom2, err>>

\* "First pass: Create line labels for ALL source lines and collect labels"
SizePass ==
  /\ pc = "size_pass"
  /\ \E sp \in {size_pass(lines, fake_functions, functions_with_return)} :
       /\ labels' = sp.labels
       /\ line_labels' = sp.line_labels
       /\ err' = sp.err
       /\ pc' = IF sp.err # "" THEN "failed" ELSE "second_pass"
  /\ main_instrs' = <<NOP, NOP>>
  /\ instruction_address' = 2
  /\ UNCHANGED <<machine_vars, fn_vars>>
  /\ UNCHANGED <<clock, lines, functions, fake_functions, functions_with_return,
                 function_lines, function_instrs, resolved_instrs, rom1, rom2>>

\* "Second pass: Generate instructions for main program"
SecondPass ==
  /\ pc = "second_pass"
  /\ \E clk \in Clocks(lines) :
       \E m \in {second_pass(lines, labels, functions, line_labels,
                              fake_functions, functions_with_return, clk)} :
          /\ main_instrs' = m.main_instrs
          /\ instruction_address' = m.instruction_address
          /\ labels' = m.labels
          /\ err' = m.err
          /\ pc' = IF m.err # "" THEN "failed" ELSE "end_main"
          /\ clock' = clk
  /\ UNCHANGED <<machine_vars, fn_vars>>
  /\ UNCHANGED <<lines, functions, fake_functions, functions_with_return,
                 function_lines, line_labels, function_instrs, resolved_instrs,
                 rom1, rom2>>

\* "Ensure program ends with HALT", then the addresses of the functions and
\* of the calls in the main program
EndMain ==
  /\ pc = "end_main"
  /\ functions' = bind_functions(functions, labels)
  /\ main_instrs' = resolve_calls(ensure_halt(main_instrs), functions')
  /\ instruction_address' =
       instruction_address + Len(ensure_halt(main_instrs)) - Len(main_instrs)
  /\ pc' = "functions"
  /\ UNCHANGED <<machine_vars, fn_vars>>
  /\ UNCHANGED <<clock, lines, fake_functions, functions_with_return, function_lines,
                 labels, line_labels, function_instrs, resolved_instrs, rom1, rom2,
                 err>>

\* "Add functions after main program"
EmitFunctions ==
  /\ pc = "functions"
  /\ \E e \in {emit_functions([instrs |-> <<>>, fia |-> Len(main_instrs),
                                err |-> ""],
                               function_lines, 1, labels, functions, line_labels,
                               fake_functions, functions_with_return)} :
        /\ function_instrs' = resolve_calls(e.instrs, functions)
        /\ err' = e.err
        /\ pc' = IF e.err # "" THEN "failed" ELSE "layout"
  /\ UNCHANGED <<machine_vars, fn_vars>>
  /\ UNCHANGED <<clock, lines, functions, fake_functions, functions_with_return,
                 function_lines, labels, line_labels, main_instrs,
                 instruction_address, resolved_instrs, rom1, rom2>>

\* "Combine main program and functions", resolve the pseudo-instructions, pad
Layout ==
  /\ pc = "layout"
  /\ LET all_instrs == main_instrs \o function_instrs IN
       resolved_instrs' =
         pad(resolve_specials(all_instrs, 1, Len(all_instrs), 0))
  /\ pc' = "format"
  /\ UNCHANGED <<machine_vars, fn_vars>>
  /\ UNCHANGED <<clock, lines, functions, fake_functions, functions_with_return,
                 function_lines, labels, line_labels, main_instrs,
                 instruction_address, function_instrs, rom1, rom2, err>>

\* The first error of the validation loop over `instrs` ("" when none)
first_format_error(instrs) ==
  LET bad == {k \in 1..Len(instrs) : format_error(instrs[k]) # ""} IN
  IF bad = {} THEN ""
  ELSE format_error(instrs[CHOOSE k \in bad : \A j \in bad : k <= j])

\* "Format for ROM1 and ROM2"
FormatROM ==
  /\ pc = "format"
  /\ \E e \in {first_format_error(resolved_instrs)} :
       /\ err' = e
       /\ pc' = IF e # "" THEN "failed" ELSE "done"
       /\ rom1' = IF e # "" THEN <<>>
                  ELSE [k \in 1..Len(resolved_instrs) |-> rom1_word(resolved_instrs[k])]
       /\ rom2' = IF e # "" THEN <<>>
                  ELSE [k \in 1..Len(resolved_instrs) |-> rom2_word(resolved_instrs[k])]
  /\ UNCHANGED <<machine_vars, fn_vars>>
  /\ UNCHANGED <<clock, lines, functions, fake_functions, functions_with_return,
                 function_lines, labels, line_labels, main_instrs,
                 instruction_address, function_instrs, resolved_instrs>>

Next ==
  \/ FirstPass
  \/ Separate
  \/ SizePass
  \/ SecondPass
  \/ EndMain
  \/ EmitFunctions
  \/ Layout
  \/ FormatROM

\* What a run of assemble() gives: the two ROMs, or an exception
Accepted(r1, r2) == [r |-> "ok", rom1 |-> r1, rom2 |-> r2]
Rejected == [r |-> "err", rom1 |-> <<>>, rom2 |-> <<>>]

\* assemble() as a function of the source text and of the clock's readings:
\* the phases above, one after the other.
assemble(src, clk) ==
  LET fp == first_pass(src)
      fwr == fp.functions_with_return
      fl == separate_loop([cur |-> "", fl |-> <<>>, main_lines |-> <<>>], src, 1,
                          fp.functions, fp.fake_functions).fl
      sp == size_pass(src, fp.fake_functions, fwr)
      m == second_pass(src, sp.labels, fp.functions, sp.line_labels,
                       fp.fake_functions, fwr, clk)
      fns == bind_functions(fp.functions, m.labels)
      main == resolve_calls(ensure_halt(m.main_instrs), fns)
      e == emit_functions([instrs |-> <<>>, fia |-> Len(main), err |-> ""], fl, 1,
                          m.labels, fns, sp.line_labels, fp.fake_functions, fwr)
      all_instrs == main \o resolve_calls(e.instrs, fns)
      res == pad(resolve_specials(all_instrs, 1, Len(all_instrs), 0))
  IN IF sp.err # "" THEN Rejected
     ELSE IF m.err # "" THEN Rejected
     ELSE IF e.err # "" THEN Rejected
     ELSE IF first_format_error(res) # "" THEN Rejected
     ELSE Accepted([k \in 1..Len(res) |-> rom1_word(res[k])],
                   [k \in 1..Len(res) |-> rom2_word(res[k])])

\* The outcome of the run the state is the end of
Outcome == IF pc = "done" THEN Accepted(rom1, rom2) ELSE Rejected

\* ------------------------------------------------------ the source texts

\* The programs made of at most n chunks, each a fragment of `chunks`
RECURSIVE Programs(_, _)
Programs(chunks, n) ==
  IF n = 0 THEN {<<>>}
  ELSE LET shorter == Programs(chunks, n - 1) IN
       shorter \cup {p \o c : p \in shorter, c \in chunks}

\* IF A == B THEN / SET A TO 1 / ELSE / SET A TO 2 / END
IfElseBlock ==
  <<LIf(RegTok(REGISTERS.A), "==", RegTok(REGISTERS.B)), LSet(REGISTERS.A, 1),
    LElse, LSet(REGISTERS.A, 2), LEnd>>

Chunks ==
  { <<LBlank>>, <<LNop>>, <<Dec(LNop, "ws")>>, <<LHalt>>, <<Dec(LHalt, " //")>>,
    <<LRet>>,
    <<LLabel("X")>>, <<LJump("X", FALSE, "")>>, <<LJump("X", FALSE, "ZERO")>>,
    <<LFunc("F")>>, <<LJump("F", TRUE, "")>>,
    <<LFake("M", TRUE)>>, <<LJump("M", TRUE, "")>>,
    <<LLabel("_IF_END_0")>>, <<LJump("_IF_END_0", FALSE, "")>>,
    IfElseBlock }

\* Fragments with the operands and the blocks the first set leaves out: ALU
\* lines and IF conditions with memory operands, a comparison with a
\* constant above 15, an IF block without END, RETURN inside an IF block
ChunksB ==
  { <<LNop>>, <<LHalt>>, <<LRet>>, <<LEnd>>,
    <<LFunc("F")>>, <<LJump("F", TRUE, "")>>,
    <<LFake("M", FALSE)>>, <<LJump("M", FALSE, "")>>,
    <<LAlu(MemTok(1), "ALU_ADD", MemTok(2), "A", FALSE)>>,
    <<LAlu(MemTok(1), "XOR", MemTok(2), "B", TRUE)>>,
    <<LAlu(MemTok(1), "ALU_SUB", NumTok(200), "A", TRUE)>>,
    <<LIf(MemTok(1), "==", MemTok(2)), LNop, LEnd>>,
    <<LIf(MemTok(1), "<", NumTok(2)), LRet, LEnd>>,
    <<LIf(RegTok(REGISTERS.A), "==", NumTok(16)), LEnd>>,
    <<LIf(RegTok(REGISTERS.A), "!=", RegTok(REGISTERS.B)), LNop>> }

\* Fragments with jumps to line aliases and to names nothing defines, with
\* a fake function P whose body calls the fake function Q, and with a fake
\* function M whose body ends with RETURN
ChunksC ==
  { <<LNop>>, <<LHalt>>, <<LRet>>, <<LBlank>>, <<Dec(LBlank, "//")>>,
    <<LLabel("X")>>, <<LFunc("F")>>,
    <<LJump("L1", FALSE, "")>>, <<LJump("L2", FALSE, "")>>,
    <<LJump("L3", FALSE, "ZERO")>>,
    <<LNop, LLabel("X"), LJump("L2", FALSE, "ZERO")>>,
    <<LJump("U", FALSE, "")>>, <<LJump("U", TRUE, "")>>,
    <<LJump("P", FALSE, "")>>,
    <<LFake("P", FALSE), LJump("Q", FALSE, ""), LNop,
      LFake("Q", FALSE), LSet(REGISTERS.A, 1), LSet(REGISTERS.A, 2)>>,
    <<LJump("M", FALSE, ""), LHalt>>,
    <<LFake("M", FALSE), LNop, LRet>> }

\* Fragments with an IF block nested in the then-body and in the else-body
\* of another, a comparison whose left operand is a constant above 15, a
\* fake function M whose body calls the real function F or X, a function
\* with a label or an IF block in its body, a conditional call of a function
\* with RETURN, and the fake functions R, P and Q that call themselves
ChunksD ==
  { <<LNop>>, <<LHalt>>,
    <<LIf(RegTok(REGISTERS.A), "==", RegTok(REGISTERS.B)),
      LIf(RegTok(REGISTERS.A), "<", RegTok(REGISTERS.B)), LSet(REGISTERS.A, 1),
      LEnd, LSet(REGISTERS.A, 2), LEnd>>,
    <<LIf(RegTok(REGISTERS.A), "==", RegTok(REGISTERS.B)), LNop, LElse,
      LIf(RegTok(REGISTERS.A), "<", RegTok(REGISTERS.B)), LSet(REGISTERS.A, 1),
      LElse, LSet(REGISTERS.A, 3), LEnd, LEnd>>,
    <<LIf(NumTok(16), "==", RegTok(REGISTERS.A)), LNop, LEnd>>,
    <<LJump("M", FALSE, ""), LHalt>>,
    <<LFake("M", FALSE), LJump("F", TRUE, ""), LNop, LFunc("F"), LNop>>,
    <<LFake("M", FALSE), LJump("X", FALSE, ""), LNop, LLabel("X"), LNop, LRet>>,
    <<LJump("F", TRUE, ""), LHalt>>,
    <<LFunc("F"), LNop, LLabel("Y"), LSet(REGISTERS.A, 1), LSet(REGISTERS.A, 2)>>,
    <<LFunc("F")>> \o IfElseBlock,
    <<LJump("X", FALSE, "ZERO"), LHalt>>, <<LJump("X", FALSE, "CARRY"), LHalt>>,
    <<LLabel("X"), LNop, LRet>>,
    <<LJump("R", FALSE, ""), LHalt>>,
    <<LFake("R", FALSE), LNop, LJump("R", FALSE, "")>>,
    <<LJump("P", FALSE, ""), LFake("P", FALSE), LJump("Q", FALSE, ""),
      LFake("Q", FALSE), LJump("P", FALSE, "")>> }

MaxChunks == 3

\* n lines NOP
NopRun(n) == [k \in 1..n |-> LNop]

\* The programs that fill the image.  A fake function M of FakeLen NOPs is
\* called FillCalls times and stands once in the main program itself; with
\* the two warm-up NOPs, FillNops more NOPs and the HALT, that is IMAGE_SIZE
\* entries.  The programs have up to MaxOver NOPs more than that, or one
\* less, and end with HALT or without.
FakeLen == 12
MaxOver == 1

FillCalls == (IMAGE_SIZE - 3) \div FakeLen - 1
FillNops == IMAGE_SIZE - 3 - FakeLen * (FillCalls + 1)

LongPrograms ==
  { [k \in 1..FillCalls |-> LJump("M", FALSE, "")] \o NopRun(n) \o t
      \o <<LFake("M", FALSE)>> \o NopRun(FakeLen) :
    n \in (FillNops - 1)..(FillNops + MaxOver), t \in {<<>>, <<LHalt>>} }

\* The source texts: up to MaxChunks fragments of Chunks, one fragment less
\* of the longer fragments ChunksB, ChunksC and ChunksD, and the long programs
Sources ==
  ((Programs(Chunks, MaxChunks) \cup Programs(ChunksB, MaxChunks - 1)
      \cup Programs(ChunksC, MaxChunks - 1)
      \cup Programs(ChunksD, MaxChunks - 1)) \ {<<>>})
    \cup LongPrograms

\* -------------------------------------------- a machine for the IF blocks

\* The machine of the DLS CPU as far as an IF block uses it: COMPARE sets
\* the zero flag iff left = right and the carry flag iff left < right; a
\* JUMP whose condition holds goes to address (data1 - 1) mod 256; any other
\* instruction is executed and the next one follows.

MaxBody == 2
MaxVal == 2

IF_OPERATORS == {"==", "!=", "<", "<=", ">", ">="}

\* A body of n ordinary instructions, SET r TO 1 .. SET r TO n, encoded
Body(r, n) == [k \in 1..n |-> I(0, r, k, OP_SET)]

\* The arguments of a call of generate_if_instructions for IF A op B THEN,
\* and the values l and r that A and B hold when the block runs
IfInput(op, nt, ne, addr, l, r) ==
  [if_line |-> LIf(RegTok(REGISTERS.A), op, RegTok(REGISTERS.B)),
   then_instructions |-> Body(REGISTERS.C, nt),
   else_instructions |-> Body(REGISTERS.D, ne),
   instruction_address |-> addr, left |-> l, right |-> r]

\* The number of entries of the block, for the choice of its address
IfLength(op, nt, ne) ==
  1 + if_prefix_jumps(op) + nt + (IF ne > 0 THEN 1 ELSE 0) + ne

MachineOff ==
  /\ if_in = IfInput("==", 0, 0, 0, 0, 0)
  /\ if_code = <<>>
  /\ mpc = -1
  /\ zero = FALSE
  /\ carry = FALSE
  /\ ran = <<>>
  /\ steps = 0

\* The block starts right after the warm-up NOPs, or ends on the image's
\* last address.
InitIf ==
  /\ Fresh(<<>>, "off")
  /\ \E op \in IF_OPERATORS, nt \in 0..MaxBody, ne \in 0..MaxBody,
        l \in 0..MaxVal, r \in 0..MaxVal :
       \E addr \in {2, IMAGE_SIZE - 1 - IfLength(op, nt, ne)} :
         if_in = IfInput(op, nt, ne, addr, l, r)
  /\ if_code = <<>>
  /\ mpc = -1
  /\ zero = FALSE
  /\ carry = FALSE
  /\ ran = <<>>
  /\ steps = 0
  /\ fn_in = [f |-> "none"]
  /\ fn_out = <<>>

asm_vars == <<lines, pc, functions, fake_functions, functions_with_return,
              function_lines, labels, line_labels, main_instrs,
              instruction_address, function_instrs, resolved_instrs, rom1, rom2,
              err, clock>>

\* The call of generate_if_instructions; the machine is set on the first
\* entry of what it returns.
GenIf ==
  /\ pc = "off"
  /\ mpc = -1
  /\ \E unique_id \in 0..(NumIds - 1) :
       LET g == generate_if_instructions(if_in.if_line, if_in.then_instructions,
                  if_in.else_instructions, <<>>, if_in.instruction_address,
                  unique_id)
       IN /\ g.r = "ok"
          /\ if_code' = g.instrs
  /\ mpc' = if_in.instruction_address
  /\ UNCHANGED <<if_in, zero, carry, ran, steps, asm_vars, fn_vars>>

InBlock ==
  /\ mpc >= if_in.instruction_address
  /\ mpc < if_in.instruction_address + Len(if_code)

\* The entry the machine is on
Fetch == if_code[mpc - if_in.instruction_address + 1]

ExecCompare ==
  /\ InBlock
  /\ Fetch.op = OP_ALU
  /\ zero' = (if_in.left = if_in.right)
  /\ carry' = (if_in.left < if_in.right)
  /\ mpc' = mpc + 1
  /\ steps' = steps + 1
  /\ UNCHANGED <<if_in, if_code, ran, asm_vars, fn_vars>>

ExecJump ==
  /\ InBlock
  /\ Fetch.op = OP_JUMP
  /\ LET taken == \/ Fetch.d2 = JT_NONE
                  \/ Fetch.d2 = JT_ZERO /\ zero
                  \/ Fetch.d2 = JT_CARRY /\ carry
     IN mpc' = IF taken THEN (Fetch.d1 - 1) % IMAGE_SIZE ELSE mpc + 1
  /\ steps' = steps + 1
  /\ UNCHANGED <<if_in, if_code, zero, carry, ran, asm_vars, fn_vars>>

ExecOther ==
  /\ InBlock
  /\ Fetch.op \notin {OP_ALU, OP_JUMP}
  /\ ran' = Append(ran, Fetch)
  /\ mpc' = mpc + 1
  /\ steps' = steps + 1
  /\ UNCHANGED <<if_in, if_code, zero, carry, asm_vars, fn_vars>>

NextIf ==
  \/ GenIf
  \/ ExecCompare
  \/ ExecJump
  \/ ExecOther

\* ------------------------------------------- calls of single functions

FnOff == fn_in = [f |-> "none"] /\ fn_out = <<>>

\* The operands of the instructions called with: the registers, and the
\* numbers Values as constants and as memory addresses
Values == {0, 1, 15, 16, 200, 255}

RegisterCodes == {REGISTERS[n] : n \in DOMAIN REGISTERS}

Operands ==
  {RegTok(r) : r \in RegisterCodes} \cup {NumTok(v) : v \in Values}
    \cup {MemTok(v) : v \in Values}

AluLines ==
  {LAlu(a1, op, a2, outreg, form2) :
     a1 \in Operands, op \in ALU_BINARY, a2 \in Operands,
     outreg \in DOMAIN REGISTERS, form2 \in BOOLEAN}

DrawParams == {RegTok(REGISTERS.A), RegTok(REGISTERS.Y), NumTok(1), NumTok(15)}

SetLines == {LSet(r, v) : r \in RegisterCodes, v \in Values}

\* The numbers the texts of tokens are written for
MaxNumber == 300

\* The digits of n in the base
RECURSIVE digits_of(_, _)
digits_of(n, base) ==
  IF n < base THEN <<DIGITS[n + 1]>>
  ELSE Append(digits_of(n \div base, base), DIGITS[(n % base) + 1])

\* The same text in lower case
str_lower(str) ==
  [i \in 1..Len(str) |->
     IF \E c \in DOMAIN UPPER : UPPER[c] = str[i]
     THEN CHOOSE c \in DOMAIN UPPER : UPPER[c] = str[i]
     ELSE str[i]]

\* A text of the token tok: a register by its name, a number in decimal,
\* with 0X in hexadecimal or with 0B in binary, a memory address as the
\* number in brackets; in upper or in lower case, bare or between spaces
NumberText(n, base) ==
  (IF base = 16 THEN <<"0", "X">> ELSE IF base = 2 THEN <<"0", "B">> ELSE <<>>)
    \o digits_of(n, base)

TokenText(tok, base, lower, spaces) ==
  LET t == CASE tok.ty = "REG" -> <<NameOf(REGISTERS, tok.val)>>
             [] tok.ty = "MEM" -> <<"[">> \o NumberText(tok.val, base) \o <<"]">>
             [] OTHER -> NumberText(tok.val, base)
      u == IF lower THEN str_lower(t) ELSE t
  IN IF spaces THEN <<" ">> \o u \o <<" ">> ELSE u

ValueTokens ==
  {RegTok(r) : r \in RegisterCodes} \cup {NumTok(n) : n \in 0..MaxNumber}
    \cup {MemTok(n) : n \in 0..MaxNumber}

FnInputs ==
  {[f |-> "alu", line |-> l] : l \in AluLines}
    \cup {[f |-> "draw", params |-> p] : p \in [1..5 -> DrawParams]}
    \cup {[f |-> "set", line |-> l] : l \in SetLines}
    \cup {[f |-> "value", tok |-> t, value_str |-> TokenText(t, base, lower, spaces)] :
            t \in ValueTokens, base \in {10, 16, 2}, lower \in BOOLEAN,
            spaces \in BOOLEAN}

InitFn ==
  /\ Fresh(<<>>, "off")
  /\ MachineOff
  /\ fn_in \in FnInputs
  /\ fn_out = <<>>

\* parse_instruction on a line, no label, function or line alias defined
ParseLine ==
  /\ fn_in.f \in {"alu", "set"}
  /\ fn_out = <<>>
  /\ fn_out' = <<parse_instruction(fn_in.line, <<>>, <<>>, <<>>, <<>>)>>
  /\ UNCHANGED <<fn_in, asm_vars, machine_vars>>

\* parse_instruction on a DRAW line
ParseDraw ==
  /\ fn_in.f = "draw"
  /\ fn_out = <<>>
  /\ fn_out' = <<parse_draw(fn_in.params)>>
  /\ UNCHANGED <<fn_in, asm_vars, machine_vars>>

\* parse_value on the text of a token
ParseValue ==
  /\ fn_in.f = "value"
  /\ fn_out = <<>>
  /\ fn_out' = <<parse_value_str(fn_in.value_str)>>
  /\ UNCHANGED <<fn_in, asm_vars, machine_vars>>

\* The listing writer on the instruction parse_instruction returned
WriteListing ==
  /\ Len(fn_out) = 1
  /\ fn_in.f \in {"alu", "draw", "set"}
  /\ fn_out[1].r = "ok"
  /\ fn_out' = Append(fn_out,
                      CASE fn_out[1].ins.op = OP_ALU -> listing_alu(fn_out[1].ins)
                        [] fn_out[1].ins.op = OP_DRAW -> listing_draw(fn_out[1].ins)
                        [] OTHER -> listing_set(fn_out[1].ins))
  /\ UNCHANGED <<fn_in, asm_vars, machine_vars>>

NextFn ==
  \/ ParseLine
  \/ ParseDraw
  \/ ParseValue
  \/ WriteListing

\* ----------------------------------------------------- the specifications

\* A run of assemble() on one of the source texts
Init == MachineOff /\ FnOff /\ \E src \in Sources : Start(src)

Spec == Init /\ [][Next]_vars

\* A call of generate_if_instructions and a run of what it returns
SpecIf == InitIf /\ [][NextIf]_vars

\* A call of one function of the assembler, and what is made of its result
SpecFn == InitFn /\ [][NextFn]_vars

\* ------------------------------------------------------------ properties

\* The address (index from 0) of the first entry of seq emitted for one of
\* the source lines S; -1 when there is none
FirstAt(seq, S) ==
  LET ks == {k \in 1..Len(seq) : seq[k].ln \in S} IN
  IF ks = {} THEN -1 ELSE (CHOOSE k \in ks : \A j \in ks : k <= j) - 1

\* The entries of seq emitted for the source lines S, in order
Emitted(seq, S) == SelectSeq(seq, LAMBDA e : e.ln \in S)

\* The entries of seq without the record of the line they were emitted for
Encoded(seq) == [k \in 1..Len(seq) |-> At(seq[k], 0)]

\* The lines that define the name n
Definitions(n) ==
  {j \in 1..Len(lines) : lines[j].k \in {"label", "func", "fake"} /\ lines[j].n = n}

\* The lines `name:` of the user labels: the name is defined once, and it is
\* not the name of a function.
UserLabelLines ==
  {i \in 1..Len(lines) :
     /\ lines[i].k = "label"
     /\ lines[i].n \notin DOMAIN functions
     /\ Definitions(lines[i].n) = {i}}

\* The line that follows line i, blank lines and the lines of further user
\* labels skipped; 0 when there is none
FollowingLine(i) ==
  LET js == {j \in (i + 1)..Len(lines) :
               /\ lines[j].k # "blank"
               /\ ~(lines[j].k = "label" /\ lines[j].n \notin DOMAIN functions)}
  IN IF js = {} THEN 0 ELSE CHOOSE j \in js : \A k \in js : j <= k

\* The label table of the Size/Symbol pass
SizePassLabels == size_pass(lines, fake_functions, functions_with_return).labels

\* C1: in an accepted program, the address the Size/Symbol pass binds to a
\* user label is the index, in the final instruction stream, of the first
\* instruction emitted for the line that follows the label.
C1_LabelIsAddressOfNextInstruction ==
  pc = "done" =>
    \A i \in UserLabelLines :
      LET j == FollowingLine(i) IN
      (/\ j > 0
       /\ ~HasColon(lines[j])
       /\ FirstAt(resolved_instrs, {j}) >= 0) =>
        SizePassLabels[lines[i].n] = FirstAt(resolved_instrs, {j})

\* The real functions: the names of `functions` that have a body in
\* function_lines and are declared once
RealFunctions ==
  {f \in DOMAIN functions :
     /\ f \notin DOMAIN fake_functions
     /\ Cardinality(Definitions(f)) = 1
     /\ \E k \in 1..Len(function_lines) : function_lines[k].name = f}

\* The source lines of the body of the real function f
BodyLines(f) ==
  LET k == CHOOSE k \in 1..Len(function_lines) : function_lines[k].name = f
      body == function_lines[k].lines
  IN {body[j].no : j \in 1..Len(body)}

\* The lines `JUMP f` / `JUMP [f]` that call the function f
CallSites(f) ==
  {k \in 1..Len(lines) : lines[k].k = "jump" /\ lines[k].n = f}

\* C2: in an accepted program, a jump emitted for a call of a real function
\* holds, in data1, one more than the index in the final instruction stream
\* of the first instruction of the function's body.
C2_CallGoesToFirstBodyInstruction ==
  pc = "done" =>
    \A f \in RealFunctions :
      FirstAt(resolved_instrs, BodyLines(f)) >= 0 =>
        \A k \in 1..Len(resolved_instrs) :
          LET e == resolved_instrs[k] IN
          (e.ln \in CallSites(f) /\ e.op = OP_JUMP) =>
            e.d1 = And255(FirstAt(resolved_instrs, BodyLines(f)) + 1)

\* The body of the real function f contains a RETURN statement
BodyHasReturn(f) ==
  LET k == CHOOSE k \in 1..Len(function_lines) : function_lines[k].name = f
      body == function_lines[k].lines
  IN \E j \in 1..Len(body) : body[j].k = "ret"

\* C3: in an accepted program, the main program holds for a call of a real
\* function with a RETURN in its body two steps, STORE_RETURN_ADDR and then
\* the jump, and for a call of a real function without RETURN the jump alone.
C3_CallStepsFollowReturn ==
  pc = "done" =>
    \A f \in RealFunctions :
      \A k \in CallSites(f) :
        LET es == Emitted(main_instrs, {k}) IN
        es # <<>> =>
          IF BodyHasReturn(f)
          THEN /\ Len(es) = 2
               /\ es[1].t = "SPECIAL" /\ es[1].s = "STORE_RETURN_ADDR"
               /\ es[2].op = OP_JUMP
          ELSE Len(es) = 1 /\ es[1].op = OP_JUMP

\* The lines `JUMP target` whose target is a user label
LabelJumps ==
  {k \in 1..Len(lines) :
     /\ lines[k].k = "jump"
     /\ ~lines[k].br
     /\ \E i \in UserLabelLines : lines[i].n = lines[k].n}

\* C4: in an accepted program, the jump emitted for `JUMP target`, target a
\* user label, holds in data1 the address the Size/Symbol pass binds to the
\* label, plus one, modulo 256.
C4_JumpHoldsLabelAddressPlusOne ==
  pc = "done" =>
    \A k \in 1..Len(resolved_instrs) :
      LET e == resolved_instrs[k] IN
      (e.ln \in LabelJumps /\ e.op = OP_JUMP) =>
        e.d1 = And255(SizePassLabels[lines[e.ln].n] + 1)

\* C5: the instruction stream of an accepted program, and each of its two
\* ROMs, has IMAGE_SIZE entries.
C5_ImageHasFixedLength ==
  pc = "done" =>
    /\ Len(resolved_instrs) = IMAGE_SIZE
    /\ Len(rom1) = IMAGE_SIZE
    /\ Len(rom2) = IMAGE_SIZE

\* The comparison `l op r`
Holds(op, l, r) ==
  CASE op = "==" -> l = r
    [] op = "!=" -> l # r
    [] op = "<" -> l < r
    [] op = "<=" -> l <= r
    [] op = ">" -> l > r
    [] OTHER -> l >= r

\* The address of the first instruction after the block
BlockEnd == if_in.instruction_address + Len(if_code)

\* C6: the machine that runs what generate_if_instructions returned stays in
\* the block until it leaves it at the first address after it, executes no
\* more instructions than the block has, and has then run the then-body
\* when the comparison holds and the else-body (nothing when there is none)
\* when it does not.
C6_IfRunsTheBranchTheComparisonSelects ==
  mpc >= 0 =>
    /\ mpc \in if_in.instruction_address..BlockEnd
    /\ steps <= Len(if_code)
    /\ mpc = BlockEnd =>
         ran = IF Holds(if_in.if_line.c, if_in.left, if_in.right)
               THEN if_in.then_instructions
               ELSE if_in.else_instructions

\* A run of IF A <= B, both bodies present, A > B, that ended after the
\* else-body alone
C6_Witness ==
  /\ mpc = BlockEnd
  /\ mpc >= 0
  /\ if_in.if_line.c = "<="
  /\ if_in.then_instructions # <<>>
  /\ if_in.else_instructions # <<>>
  /\ if_in.left > if_in.right
  /\ ran = if_in.else_instructions

\* The lines i where the block IF A == B THEN / SET A TO 1 / ELSE /
\* SET A TO 2 / END starts and was expanded by the second pass
ExpandedIfElseBlocks ==
  {i \in 1..Len(lines) :
     /\ i + Len(IfElseBlock) - 1 <= Len(lines)
     /\ SubSeq(lines, i, i + Len(IfElseBlock) - 1) = IfElseBlock
     /\ FirstAt(main_instrs, {i}) >= 0}

IfElseEntries(i) == Emitted(main_instrs, i..(i + Len(IfElseBlock) - 1))

\* C7: the block IF A == B THEN / SET A TO 1 / ELSE / SET A TO 2 / END
\* expands to exactly 6 instructions: the COMPARE, the jump on zero to the
\* then-body, the jump to the else-body two entries further, the then SET,
\* the jump over the else-body and the else SET.
C7_IfElseExpandsToSixInstructions ==
  \A i \in ExpandedIfElseBlocks :
    LET b == IfElseEntries(i) IN
    /\ Len(b) = 6
    /\ b[1].op = OP_ALU /\ And15(b[1].d3) = ALU_COMPARE
    /\ b[2].op = OP_JUMP /\ b[2].d2 = JT_ZERO
    /\ b[3].op = OP_JUMP /\ b[3].d2 = JT_NONE /\ b[3].d1 = And255(b[2].d1 + 2)
    /\ b[4].op = OP_SET /\ b[4].d2 = REGISTERS.A /\ b[4].d1 = 1
    /\ b[5].op = OP_JUMP /\ b[5].d2 = JT_NONE /\ b[5].d1 = And255(b[2].d1 + 3)
    /\ b[6].op = OP_SET /\ b[6].d2 = REGISTERS.A /\ b[6].d1 = 2

\* The program that is the block alone, assembled: the block is at address
\* 2, its then-body at 5, its else-body at 7 and its end at 8.
C7_Witness ==
  /\ pc = "done"
  /\ lines = IfElseBlock
  /\ ExpandedIfElseBlocks = {1}
  /\ Len(IfElseEntries(1)) = 6
  /\ IfElseEntries(1)[2].d1 = 6
  /\ IfElseEntries(1) = Emitted(resolved_instrs, 1..Len(IfElseBlock))
  /\ FirstAt(resolved_instrs, {1}) = 2

\* C7 as the specification states it: the block expands to exactly 7
\* instructions.
C7_IfElseExpandsToSevenInstructions ==
  \A i \in ExpandedIfElseBlocks : Len(IfElseEntries(i)) = 7

\* The text without what re.sub(r'//.*', '', line).strip() removes from
\* its lines
Undecorated(src) == [i \in 1..Len(src) |-> clean(src[i])]

\* C8: a run ends as a run on the text without its comments and its
\* surrounding blanks ends, the clock reading the same: both rejected, or
\* both accepted with the same ROMs.
C8_DecorationsDoNotChangeTheOutcome ==
  pc \in {"done", "failed"} => Outcome = assemble(Undecorated(lines), clock)

\* C9: a run ends as every run on the same text ends, whatever the clock
\* reads.
C9_ClockDoesNotChangeTheOutcome ==
  pc \in {"done", "failed"} =>
    \A clk \in Clocks(lines) : assemble(lines, clk) = Outcome

\* C10: the program HALT is accepted, and its stream is NOP, NOP, HALT and
\* then NOPs up to the image's size.
C10_HaltAlone ==
  lines = <<LHalt>> =>
    /\ pc # "failed"
    /\ pc = "done" =>
         /\ Encoded(resolved_instrs) =
              <<NOP, NOP, HALT>> \o [k \in 1..(IMAGE_SIZE - 3) |-> NOP]
         /\ rom1 = [k \in 1..IMAGE_SIZE |-> IF k = 3 THEN OP_HALT ELSE 0]
         /\ rom2 = [k \in 1..IMAGE_SIZE |-> 0]

C10_Witness == lines = <<LHalt>> /\ pc = "done" /\ Len(rom1) = IMAGE_SIZE

\* What the listing has to show for the call to give its operands back
Operands_In ==
  CASE fn_in.f = "alu" ->
         [outreg |-> fn_in.line.n, a1 |-> fn_in.line.a1, op |-> fn_in.line.c,
          a2 |-> fn_in.line.a2]
    [] fn_in.f = "draw" -> fn_in.params
    [] OTHER -> [reg |-> fn_in.line.a1, value |-> fn_in.line.a2]

\* C11: what the listing writer shows for the tuple parse_instruction
\* returned for an ALU, DRAW or SET line are the operands of the line.
C11_ListingGivesOperandsBack ==
  (fn_in.f \in {"alu", "draw", "set"} /\ Len(fn_out) = 2) =>
    fn_out[2] = Operands_In

\* Both operands of the line are memory addresses
TwoMemoryOperands(l) ==
  l.k \in {"alu", "if"} /\ l.a1.ty = "MEM" /\ l.a2.ty = "MEM"

\* C12: a source text with a binary ALU line or an IF condition whose two
\* operands are both memory addresses is not assembled.
C12_TwoMemoryOperandsAreRejected ==
  pc = "done" => \A i \in 1..Len(lines) : ~TwoMemoryOperands(lines[i])

\* The four fields of a 4-tuple with numbers are in 0..255
InByteRange(ins) ==
  ins.t = "I" =>
    ins.d3 \in 0..255 /\ ins.d2 \in 0..255 /\ ins.d1 \in 0..255 /\ ins.op \in 0..255

\* C13: an image is made of fields in 0..255 only; when an entry of the
\* resolved stream has a field outside 0..255, ROM formatting ends with an
\* error and with no ROM word.
C13_NoFieldOutsideAByte ==
  /\ \A k \in 1..Len(rom1) :
       /\ InByteRange(resolved_instrs[k])
       /\ rom1[k] = resolved_instrs[k].d1 * 256 + resolved_instrs[k].op
       /\ rom2[k] = resolved_instrs[k].d3 * 256 + resolved_instrs[k].d2
  /\ (pc \in {"done", "failed"}
        /\ \E k \in 1..Len(resolved_instrs) : ~InByteRange(resolved_instrs[k]))
      => (pc = "failed" /\ err # "" /\ rom1 = <<>> /\ rom2 = <<>>)

\* IF A == 16 THEN: the COMPARE has data1 = 256, and formatting has failed
C13_Witness ==
  /\ pc = "failed"
  /\ rom1 = <<>>
  /\ \E k \in 1..Len(resolved_instrs) :
       resolved_instrs[k].t = "I" /\ resolved_instrs[k].d1 = 256

\* The line is a call of a fake function
FakeCall(l) == l.k = "jump" /\ l.n \in DOMAIN fake_functions

\* The emitted jumps that stand for a call of a fake function from the body
\* of the fake function expanded on their line, and hold the default 1
\* (no label is bound to address 0, so 1 is no label's address plus one)
PlaceholderJumps ==
  {k \in 1..Len(resolved_instrs) :
     LET e == resolved_instrs[k] IN
     /\ e.t = "I" /\ e.op = OP_JUMP /\ e.d1 = 1
     /\ e.ln \in 1..Len(lines)
     /\ FakeCall(lines[e.ln])
     /\ \E b \in 1..Len(fake_functions[lines[e.ln].n]) :
          FakeCall(fake_functions[lines[e.ln].n][b])}

\* C14: no image holds a jump with a default target in place of a call that
\* could not be resolved: a program with a call of a fake function from
\* inside an expanded fake function's body, the called name bound to no
\* address, is not assembled.
C14_NoJumpWithPlaceholderTarget ==
  pc = "done" => PlaceholderJumps = {}

\* The IF lines with no END line anywhere after them
UnterminatedIfs ==
  {i \in 1..Len(lines) :
     lines[i].k = "if" /\ \A j \in (i + 1)..Len(lines) : lines[j].k # "end"}

\* C15: a source text with an IF line that no END follows, in the main
\* program or in the body of a function, is not assembled.
C15_IfWithoutEndIsRejected ==
  pc = "done" => UnterminatedIfs = {}

\* C16: a program whose instruction stream is longer than IMAGE_SIZE
\* before padding does not end as accepted and yields no ROM word.
C16_OverlongStreamYieldsNoROM ==
  Len(resolved_instrs) > IMAGE_SIZE =>
    (pc # "done" /\ rom1 = <<>> /\ rom2 = <<>>)

\* POP RETURN D, and JUMP through register D
IsPopReturn(e) ==
  /\ e.t = "I" /\ e.op = OP_STACK
  /\ e.d3 = STACK_POP * 4 + STACK_RETURN /\ e.d2 = REGISTERS.D /\ e.d1 = 0

IsJumpThroughD(e) ==
  e.t = "I" /\ e.op = OP_JUMP /\ e.d3 = 16 /\ e.d2 = REGISTERS.D * 16 /\ e.d1 = 0

\* The entries at k and k + 1 of the image are the two steps of a RETURN,
\* both emitted for the source line i
ReturnPairAt(k, i) ==
  /\ k + 1 <= Len(resolved_instrs)
  /\ resolved_instrs[k].ln = i /\ resolved_instrs[k + 1].ln = i
  /\ IsPopReturn(resolved_instrs[k])
  /\ IsJumpThroughD(resolved_instrs[k + 1])

\* The calls of a fake function with RETURN in its body for which the image
\* holds entries
ExpandedReturnCalls ==
  {i \in 1..Len(lines) :
     /\ FakeCall(lines[i])
     /\ \E b \in 1..Len(fake_functions[lines[i].n]) :
          fake_functions[lines[i].n][b].k = "ret"
     /\ \E k \in 1..Len(resolved_instrs) : resolved_instrs[k].ln = i}

\* The RETURN lines for which the image holds entries
EmittedReturns ==
  {i \in 1..Len(lines) :
     lines[i].k = "ret" /\ \E k \in 1..Len(resolved_instrs) : resolved_instrs[k].ln = i}

\* C17: in an accepted program every RETURN that leaves entries in the
\* image leaves POP RETURN D and then JUMP through D, one after the other:
\* a RETURN line of the main program, of a function body or of an IF body,
\* and a RETURN of a fake function's body expanded at a call.
C17_ReturnIsPopThenJump ==
  pc = "done" =>
    /\ \A i \in EmittedReturns :
         \A k \in 1..Len(resolved_instrs) :
           resolved_instrs[k].ln = i =>
             (ReturnPairAt(k, i) \/ (k > 1 /\ ReturnPairAt(k - 1, i)))
    /\ \A i \in ExpandedReturnCalls :
         \E k \in 1..Len(resolved_instrs) : ReturnPairAt(k, i)

\* C18: in an accepted program, the entries the image holds for a call of
\* a fake function are as many as count_instruction_increment counts for
\* the call, the bodies of the fake functions called from the body included.
C18_ExpansionHasTheCountedLength ==
  pc = "done" =>
    \A i \in 1..Len(lines) :
      LET es == Emitted(resolved_instrs, {i}) IN
      (FakeCall(lines[i]) /\ es # <<>>) =>
        Len(es) = count_instruction_increment(clean(lines[i]), fake_functions,
                                              functions_with_return)

\* C19: when the Size/Symbol pass has ended, every line n of the source has
\* its alias L<n> bound, and parse_instruction accepts `JUMP L<n>`.
C19_EveryLineHasAnAlias ==
  pc = "second_pass" =>
    \A n \in 1..Len(lines) :
      /\ n \in DOMAIN line_labels
      /\ n <= Len(LNAMES) =>
           parse_instruction(LJump(LNAMES[n], FALSE, ""), labels, functions,
                             line_labels, fake_functions).r = "ok"

\* C20: parse_value returns (REGISTER, code) for the name of a register in
\* upper or lower case, (RAM, n mod 256) for a number in brackets and
\* (BUILTIN, n mod 256) for a number, written in decimal, with 0x in
\* hexadecimal or with 0b in binary; that is what parse_value gives on the
\* token the instructions of the model are built from.
C20_ParseValueReadsTheToken ==
  (fn_in.f = "value" /\ Len(fn_out) = 1) =>
    /\ fn_out[1] =
         CASE fn_in.tok.ty = "REG" -> [ty |-> VT_REGISTER, val |-> fn_in.tok.val]
           [] fn_in.tok.ty = "MEM" -> [ty |-> VT_RAM, val |-> fn_in.tok.val % 256]
           [] OTHER -> [ty |-> VT_BUILTIN, val |-> fn_in.tok.val % 256]
    /\ fn_out[1] = parse_value(fn_in.tok)

\* [0x12c] read as the memory address 300 mod 256 = 44
C20_Witness ==
  /\ fn_in.f = "value"
  /\ fn_in.value_str = <<"[", "0", "x", "1", "2", "c", "]">>
  /\ fn_out = <<[ty |-> VT_RAM, val |-> 44]>>

\* The nibble of an operand in the ALU layout: the code of a register, the
\* low four bits of a constant or of a memory address
OperandNibble(v) == IF v.ty = VT_REGISTER THEN v.val ELSE And15(v.val)

\* The COMPARE instructions of the main program, each emitted for an IF line
EmittedCompares ==
  {k \in 1..Len(main_instrs) :
     /\ main_instrs[k].t = "I" /\ main_instrs[k].op = OP_ALU
     /\ main_instrs[k].ln \in 1..Len(lines)
     /\ lines[main_instrs[k].ln].k = "if"}

\* C21: the COMPARE that generate_if_instructions emits for an IF line has
\* data1 = (nibble of the right operand << 4) | nibble of the left operand,
\* a number in 0..255 whose low nibble is the left operand's and whose high
\* nibble is the right operand's.
C21_CompareFollowsTheAluLayout ==
  \A k \in EmittedCompares :
    LET e == main_instrs[k]
        left == parse_value(lines[e.ln].a1)
        right == parse_value(lines[e.ln].a2)
    IN /\ e.d1 \in 0..255
       /\ e.d1 % 16 = OperandNibble(left)
       /\ e.d1 \div 16 = OperandNibble(right)

\* The entries k of the image where a STORE_RETURN_ADDR was expanded: SET D,
\* then PUSH RETURN D, then the jump, all emitted for the call on their line
StoredReturnAddrs ==
  {k \in 1..Len(resolved_instrs) :
     /\ k + 2 <= Len(resolved_instrs)
     /\ resolved_instrs[k].ln \in 1..Len(lines)
     /\ lines[resolved_instrs[k].ln].k = "jump"
     /\ lines[resolved_instrs[k].ln].n \in DOMAIN functions \ DOMAIN fake_functions
     /\ resolved_instrs[k].op = OP_SET /\ resolved_instrs[k].d2 = REGISTERS.D
     /\ resolved_instrs[k + 1].op = OP_STACK
     /\ resolved_instrs[k + 1].ln = resolved_instrs[k].ln
     /\ resolved_instrs[k + 2].op = OP_JUMP
     /\ resolved_instrs[k + 2].ln = resolved_instrs[k].ln}

\* C22: in an accepted program, the SET D of an expanded STORE_RETURN_ADDR
\* loads the address, in the image, of the instruction right after the
\* call's jump.  (The entry k of resolved_instrs is at address k - 1; the
\* jump is the entry k + 2, the instruction after it is at address k + 2.)
C22_ReturnAddressFollowsTheJump ==
  pc = "done" =>
    \A k \in StoredReturnAddrs : resolved_instrs[k].d1 = And255(k + 2)

\* The line of the END that matches the IF on line o (0: there is none)
MatchingEnd(o) == if_scan(lines, o + 1, FALSE, 0, <<>>, <<>>).end

\* The IF lines i inside the block of an IF line o that the second pass
\* expanded, as pairs <<o, i>>
NestedIfs ==
  {p \in (1..Len(lines)) \X (1..Len(lines)) :
     /\ lines[p[1]].k = "if" /\ lines[p[2]].k = "if"
     /\ p[1] < p[2] /\ p[2] < MatchingEnd(p[1])
     /\ FirstAt(main_instrs, {p[1]}) >= 0}

\* The entries of the image emitted for line i that are a COMPARE
ComparesFor(i) ==
  {k \in 1..Len(resolved_instrs) :
     /\ resolved_instrs[k].ln = i
     /\ resolved_instrs[k].op = OP_ALU
     /\ And15(resolved_instrs[k].d3) = ALU_COMPARE}

\* C23: in an accepted program, an IF block inside the then- or else-body of
\* an expanded IF block is lowered too: the image holds a COMPARE for the
\* inner IF line, after the COMPARE of the outer one.
C23_NestedIfIsLowered ==
  pc = "done" =>
    \A p \in NestedIfs :
      \E ko \in ComparesFor(p[1]), ki \in ComparesFor(p[2]) : ko < ki

\* The name is the name of a real function
IsRealFunction(n) == n \in DOMAIN functions \ DOMAIN fake_functions

\* The fake functions whose body calls a real function, each line of the
\* body accepted by parse_instruction
FakesCallingRealFunctions ==
  {m \in DOMAIN fake_functions :
     /\ \E b \in 1..Len(fake_functions[m]) :
          fake_functions[m][b].k = "jump" /\ IsRealFunction(fake_functions[m][b].n)
     /\ \A b \in 1..Len(fake_functions[m]) :
          parse_instruction(fake_functions[m][b], labels, functions, line_labels,
                            fake_functions).r # "err"}

\* C24: when the Size/Symbol pass has ended, a fake function whose body
\* calls a real function can be expanded, and the call in its body is
\* lowered to STORE_RETURN_ADDR and a jump when the function called has a
\* RETURN, to the jump alone when it has none.
C24_FakeBodyMayCallARealFunction ==
  pc = "second_pass" =>
    \A m \in FakesCallingRealFunctions :
      /\ expand_fake_function(fake_functions[m], labels, functions, line_labels,
                              fake_functions, functions_with_return).r = "ok"
      /\ \A b \in 1..Len(fake_functions[m]) :
           LET l == fake_functions[m][b]
               e == expand_instruction(l, labels, functions, line_labels,
                                       fake_functions, functions_with_return).instrs
           IN (l.k = "jump" /\ IsRealFunction(l.n)) =>
                /\ Len(e) = (IF l.n \in functions_with_return THEN 2 ELSE 1)
                /\ e[Len(e)].op = OP_JUMP
                /\ Len(e) = 2 => (e[1].t = "SPECIAL" /\ e[1].s = "STORE_RETURN_ADDR")

\* The IF lines the second pass expanded, and the reading of the clock at
\* the k-th expansion: clock[k], the k-th reading of the run
ExpandedIfs ==
  {i \in 1..Len(lines) : lines[i].k = "if" /\ FirstAt(main_instrs, {i}) >= 0}

NonDecreasing(seq) == \A k \in 1..(Len(seq) - 1) : seq[k] <= seq[k + 1]

\* The three synthetic label names of the expansion that read unique_id
SyntheticLabels(unique_id) ==
  {IF_THEN_NAMES[unique_id + 1], IF_ELSE_NAMES[unique_id + 1],
   IF_END_NAMES[unique_id + 1]}

\* C25: when the second pass has ended on a run whose clock readings do not
\* decrease, any two IF expansions of the run have bound synthetic labels of
\* different names.
C25_IfExpansionsGetDistinctLabels ==
  (pc \in {"end_main", "functions", "layout", "format", "done"}
     /\ NonDecreasing(clock)) =>
    \A k1, k2 \in 1..Cardinality(ExpandedIfs) :
      k1 < k2 => SyntheticLabels(clock[k1]) \cap SyntheticLabels(clock[k2]) = {}

\* The IF lines in the body of a real function
FunctionIfs ==
  {i \in 1..Len(lines) :
     lines[i].k = "if" /\ \E f \in RealFunctions : i \in BodyLines(f)}

\* C26: in an accepted program, an IF block in the body of a real function
\* is lowered as in the main program: the image holds the COMPARE of its IF
\* line, and conditional jumps emitted for that line after it.
C26_IfInFunctionBodyIsLowered ==
  pc = "done" =>
    \A i \in FunctionIfs :
      \E k \in ComparesFor(i) :
        /\ k + 1 <= Len(resolved_instrs)
        /\ resolved_instrs[k + 1].ln = i
        /\ resolved_instrs[k + 1].op = OP_JUMP

\* The lines of the bodies of the fake functions' definitions: the lines
\* after a header `name: fake` up to the next line with a colon
FakeBodyLines ==
  {i \in 1..Len(lines) :
     /\ lines[i].k # "blank"
     /\ \E h \in 1..(i - 1) :
          /\ lines[h].k = "fake"
          /\ \A j \in (h + 1)..i : ~HasColon(lines[j])}

\* C27: the lines of a fake function's definition are not counted by the
\* Size/Symbol pass (the line after one has the address the line itself
\* has), and an accepted program's image holds no entry emitted in place for
\* one of them: the body is in the image at the calls only.
C27_FakeBodyIsNotEmittedInPlace ==
  /\ pc = "second_pass" =>
       \A i \in FakeBodyLines :
         (i \in DOMAIN line_labels /\ i + 1 \in DOMAIN line_labels) =>
           line_labels[i + 1] = line_labels[i]
  /\ pc = "done" =>
       \A k \in 1..Len(resolved_instrs) : resolved_instrs[k].ln \notin FakeBodyLines

\* The header lines of the real functions
FunctionHeaders ==
  {h \in 1..Len(lines) :
     lines[h].k \in {"label", "func"} /\ IsRealFunction(lines[h].n)}

\* The instruction lines after the header of a real function that are no
\* line of a fake function's definition and no IF, ELSE or END
FunctionRegionLines ==
  {i \in 1..Len(lines) :
     /\ lines[i].k \notin {"blank", "label", "func", "fake", "if", "else", "end"}
     /\ i \notin FakeBodyLines
     /\ \E h \in FunctionHeaders : h < i}

\* C28: in an accepted program, every instruction line after the header of
\* a real function has entries in the image, and the entries of an earlier
\* line come before the entries of a later one.
C28_FunctionLinesAreAllEmitted ==
  pc = "done" =>
    /\ \A i \in FunctionRegionLines : FirstAt(resolved_instrs, {i}) >= 0
    /\ \A i, j \in FunctionRegionLines :
         i < j => FirstAt(resolved_instrs, {i}) < FirstAt(resolved_instrs, {j})

\* PUSH RETURN r and POP RETURN r
IsPushReturn(e) ==
  e.t = "I" /\ e.op = OP_STACK /\ e.d3 = STACK_PUSH * 4 + STACK_RETURN

IsPopOfReturn(e) ==
  e.t = "I" /\ e.op = OP_STACK /\ e.d3 = STACK_POP * 4 + STACK_RETURN

\* The depth of the RETURN stack after the machine has executed the entries
\* lo..hi of the image one after the other, no jump among them taken, when
\* the depth was `depth` before
RECURSIVE depth_after(_, _, _)
depth_after(lo, hi, depth) ==
  IF lo > hi THEN depth
  ELSE depth_after(lo + 1, hi,
                   IF IsPushReturn(resolved_instrs[lo]) THEN depth + 1
                   ELSE IF IsPopOfReturn(resolved_instrs[lo]) /\ depth > 0
                     THEN depth - 1
                   ELSE depth)

\* The expanded STORE_RETURN_ADDR entries of the conditional calls
ConditionalCalls ==
  {k \in StoredReturnAddrs : resolved_instrs[k + 2].d2 # JT_NONE}

\* C29: in an accepted program, the call sequence of a conditional call of a
\* function with RETURN leaves the RETURN stack as deep as it found it when
\* the condition is false and the jump is not taken.
C29_UntakenCallLeavesTheReturnStack ==
  pc = "done" =>
    \A k \in ConditionalCalls : \A depth \in 0..1 :
      depth_after(k, k + 2, depth) = depth

\* The fake functions the body of the fake function m calls
FakeCallees(m) ==
  {fake_functions[m][b].n :
     b \in {c \in 1..Len(fake_functions[m]) : FakeCall(fake_functions[m][c])}}

\* The fake functions called from those of S, through n calls at most
RECURSIVE ReachableFakes(_, _)
ReachableFakes(S, n) ==
  IF n = 0 THEN S
  ELSE ReachableFakes(S \cup UNION {FakeCallees(m) : m \in S}, n - 1)

\* The fake functions whose body calls the function itself, directly or
\* through other fake functions
RecursiveFakes ==
  {m \in DOMAIN fake_functions :
     m \in ReachableFakes(FakeCallees(m), Cardinality(DOMAIN fake_functions))}

\* C30: on a source text with a fake function that calls itself, directly
\* or through other fake functions, the Size/Symbol pass ends with a count
\* or with the program rejected; it does not recurse until the stack of the
\* interpreter is exhausted.
C30_RecursiveFakeIsRejectedOrBounded ==
  RecursiveFakes # {} => err # "RecursionError"

====
